---- MODULE Spec2Model ----
(***************************************************************************)
(* A model of syn's code generator (syn_codegen/src/main.rs), of the       *)
(* boilerplate it emits, and of the `unstable` example's eval.             *)
(*                                                                         *)
(* Text is modelled as a sequence of tokens (strings).  Every brace and    *)
(* parenthesis of a pushed string is a token of its own; indentation is    *)
(* left out; a line end is the token "\n" (or the end of ";\n", ",\n").    *)
(* An identifier the code builds with format! (visit_{under_name}) is the  *)
(* run of its parts ("visit_", under_name).  A #[cfg(..)] attribute is one *)
(* token.                                                                  *)
(***************************************************************************)
EXTENDS Integers, Sequences, FiniteSets, TLC

VARIABLES
    root,       \* the items of ../src/lib.rs, as indices into ItemPool
    pc,         \* where main is
    stack,      \* the load_file calls in progress, innermost last
    lookup,     \* Lookup: BTreeMap<Ident, AstItem>
    cursor,     \* how many of lookup.values() the loop of main has passed
    state,      \* codegen::State
    disk,       \* the four output files
    origin,     \* history: for each entry of lookup, the attributes of the
                \* module declarations and of the macro invocation it came from
    emitted,    \* history: the generate calls made, with the buffer lengths
                \* each one started from
    fieldTy,    \* codegen::visit alone: the type of a field,
    table,      \*   the names the lookup table holds,
    visited,    \*   and what visit made of the field
    decls,      \* two runs of main: the declarations both discover,
    runs,       \*   and where each run is
    input,      \* the example: the tokens handed to demo,
    output,     \*   and what demo emitted and returned
    markers,    \* SpanVisitor: the spans of a node, in visiting order,
    visitor,    \*   and the SpanVisitor
    given,      \* the emitted fold: a value of a node,
    folded      \*   and what the default Folder made of it

mainVars == <<root, pc, stack, lookup, cursor, state, disk, origin, emitted>>

visitVars == <<fieldTy, table, visited>>

detVars == <<decls, runs>>

evalVars == <<input, output>>

spanVars == <<markers, visitor>>

foldVars == <<given, folded>>

\* the variables main leaves alone
sideVars == <<visitVars, detVars, evalVars, spanVars, foldVars>>

vars == <<mainVars, sideVars>>

\* a part of the model that is not running
NotStarted == "not started"

VisitIdle == fieldTy = NotStarted /\ table = NotStarted /\ visited = NotStarted

DetIdle == decls = NotStarted /\ runs = NotStarted

EvalIdle == input = NotStarted /\ output = NotStarted

SpanIdle == markers = NotStarted /\ visitor = NotStarted

FoldIdle == given = NotStarted /\ folded = NotStarted

(***************************************************************************)
(* Bounds.                                                                 *)
(***************************************************************************)
\* how many items the crate root holds at most
MaxItems == 2

(***************************************************************************)
(* Program constants.                                                      *)
(***************************************************************************)
SYN_CRATE_ROOT == "lib"

FOLD_SRC == "fold.rs"

VISIT_SRC == "visit.rs"

VISIT_MUT_SRC == "visit_mut.rs"

SPANNED_SRC == "spanned.rs"

\* as OUTPUTS, were spanned.rs written first
OUTPUTS_SPANNED_FIRST == <<SPANNED_SRC, FOLD_SRC, VISIT_SRC, VISIT_MUT_SRC>>

OUTPUTS == <<FOLD_SRC, VISIT_SRC, VISIT_MUT_SRC, SPANNED_SRC>>

\* as IGNORED_MODS, were visit_mut not among them
IGNORED_MODS_BUT_ONE == {"fold", "visit"}

IGNORED_MODS == {"fold", "visit", "visit_mut"}

TERMINAL_TYPES == <<"Ident", "Span">>

(***************************************************************************)
(* Sequences.                                                              *)
(***************************************************************************)
Range(s) == {s[i] : i \in 1..Len(s)}

RECURSIVE Flatten(_)
Flatten(ss) == IF ss = <<>> THEN <<>> ELSE Head(ss) \o Flatten(Tail(ss))

\* how many elements of s are in the set S
RECURSIVE Count(_, _)
Count(s, S) ==
    IF s = <<>> THEN 0
    ELSE (IF Head(s) \in S THEN 1 ELSE 0) + Count(Tail(s), S)

IsPrefix(s, t) == Len(s) <= Len(t) /\ SubSeq(t, 1, Len(s)) = s

(***************************************************************************)
(* The schema: syn's DeriveInput as far as the generator reads it.         *)
(* A type is the chain of its last path segments: <<"Vec", "Box", "Expr">> *)
(* is Vec<Box<Expr>>; each segment's first generic argument is the rest of *)
(* the chain.  NOT_A_PATH stands for a type that is no plain path (a       *)
(* reference, a tuple, a qualified path); NOT_A_TYPE for a first generic   *)
(* argument that is no type (a lifetime).  A chain that ends after a       *)
(* segment gives that segment no generic arguments.                        *)
(***************************************************************************)
NOT_A_PATH == "&"

NOT_A_TYPE == "'a"

Field(id, ty) == [ident |-> id, ty |-> ty]

\* a positional field has no ident
NoIdent == ""

Variant(id, data, fields) == [ident |-> id, data |-> data, fields |-> fields]

BodyStruct(data, fields) ==
    [kind |-> "Struct", data |-> data, fields |-> fields, variants |-> <<>>]

BodyEnum(variants) ==
    [kind |-> "Enum", data |-> "Unit", fields |-> <<>>, variants |-> variants]

AstItem(id, body, features, eos_full) ==
    [ident |-> id, body |-> body, features |-> features, eos_full |-> eos_full]

Attr(path, text) == [path |-> path, text |-> text]

\* as get_features, were the features of the enclosing scope not carried over
get_features_fresh(attrs, features) ==
    LET cfgs == SelectSeq(attrs, LAMBDA a : a.path = "cfg")
    IN  [i \in 1..Len(cfgs) |-> cfgs[i].text]

\* get_features: the #[cfg] attributes among attrs, appended to features
RECURSIVE get_features(_, _)
get_features(attrs, features) ==
    IF attrs = <<>> THEN features
    ELSE get_features(Tail(attrs),
                      IF Head(attrs).path = "cfg"
                      THEN Append(features, Head(attrs).text)
                      ELSE features)

(***************************************************************************)
(* mod parsing.  The tokens of a macro invocation are given as the         *)
(* declaration they spell, or as Garbage when they spell none.             *)
(***************************************************************************)
Garbage == [wellformed |-> FALSE]

\* `pub struct Name #full? rest`
StructDecl(id, hasFull, data, fields) ==
    [wellformed |-> TRUE, ident |-> id, full |-> hasFull, data |-> data,
     fields |-> fields]

\* `pub enum Name { variants }`
EnumDecl(id, variants) ==
    [wellformed |-> TRUE, ident |-> id, variants |-> variants]

\* one variant of ast_enum_of_structs!: `pub Name(Member),` with Member a
\* struct declared inline (inner) or the path of a type declared elsewhere
EosInline(name, decl) == [name |-> name, inline |-> TRUE, decl |-> decl]

EosPath(name, path) == [name |-> name, inline |-> FALSE, path |-> path]

FULL_CFG == "#[cfg(feature = \"full\")]"

\* named!(full)
full(hasFull) == IF hasFull THEN <<<<FULL_CFG>>, TRUE>> ELSE <<<<>>, FALSE>>

ast_struct_inner(decl) ==
    AstItem(decl.ident, BodyStruct(decl.data, decl.fields),
            full(decl.full)[1], full(decl.full)[2])

\* each parser gives <<>> when it fails and <<items>> when it succeeds
AstStruct(tokens) ==
    IF tokens.wellformed THEN << <<ast_struct_inner(tokens)>> >> ELSE <<>>

AstEnum(tokens) ==
    IF tokens.wellformed
    THEN << <<AstItem(tokens.ident, BodyEnum(tokens.variants), <<>>, FALSE)>> >>
    ELSE <<>>

EosMember(v) == IF v.inline THEN v.decl.ident ELSE v.path

RECURSIVE EosInner(_)
EosInner(body) ==
    IF body = <<>> THEN <<>>
    ELSE (IF Head(body).inline THEN <<ast_struct_inner(Head(body).decl)>> ELSE <<>>)
         \o EosInner(Tail(body))

AstEnumOfStructs(tokens) ==
    IF tokens.wellformed
    THEN LET enum_item ==
                 AstItem(tokens.ident,
                         BodyEnum([i \in 1..Len(tokens.variants) |->
                                      Variant(tokens.variants[i].name, "Tuple",
                                              <<Field(NoIdent,
                                                      <<EosMember(tokens.variants[i])>>)>>)]),
                         <<>>, FALSE)
         IN  << <<enum_item>> \o EosInner(tokens.variants) >>
    ELSE <<>>

(***************************************************************************)
(* The input: the files of ../src.  An item of a file is a module          *)
(* declaration, a macro invocation, or anything else.                      *)
(***************************************************************************)
ItemMod(id, attrs, inline) ==
    [item |-> "Mod", ident |-> id, attrs |-> attrs, content |-> inline]

ItemMacro(path, attrs, tokens) ==
    [item |-> "Macro", path |-> path, attrs |-> attrs, tokens |-> tokens]

ItemOther == [item |-> "Other"]

CfgP == Attr("cfg", "#[cfg(feature = \"parsing\")]")

CfgQ == Attr("cfg", "#[cfg(feature = \"printing\")]")

CfgR == Attr("cfg", "#[cfg(feature = \"extra-traits\")]")

Doc == Attr("doc", "#[doc = \"...\"]")

NamedItem ==
    StructDecl("Item", FALSE, "Struct",
               <<Field("ident", <<"Ident">>),
                 Field("args", <<"Vec", "Box", "Expr">>),
                 Field("span", <<"Span">>),
                 Field("abi", <<"Abi">>)>>)

TupleLit ==
    StructDecl("Lit", FALSE, "Tuple",
               <<Field(NoIdent, <<"Option", "Ident">>),
                 Field(NoIdent, <<"Delimited", "Expr">>)>>)

OpEnum ==
    EnumDecl("Op", <<Variant("Add", "Unit", <<>>),
                     Variant("Neg", "Tuple", <<Field(NoIdent, <<"Box", "Expr">>)>>),
                     Variant("Call", "Tuple", <<Field(NoIdent, <<"Ident">>),
                                                Field(NoIdent, <<"Vec", "Expr">>)>>)>>)

ExprEos ==
    EnumDecl("Expr",
             <<EosPath("Lit", "Lit"),
               EosInline("Box", StructDecl("ExprBox", TRUE, "Struct",
                                           <<Field("expr", <<"Box", "Expr">>)>>)),
               EosInline("Paren", StructDecl("ExprParen", FALSE, "Tuple",
                                             <<Field(NoIdent, <<"Box", "Expr">>),
                                               Field(NoIdent, <<"Span">>)>>))>>)

\* the items the crate root is drawn from
ItemPool ==
    << ItemMod("expr", <<CfgP, Doc>>, FALSE),
       ItemMod("bad", <<>>, FALSE),
       ItemMod("fold", <<>>, FALSE),
       ItemMod("helper", <<CfgP>>, TRUE),
       ItemMod("gone", <<>>, FALSE),
       ItemMod("deep", <<CfgR>>, FALSE),
       ItemOther,
       ItemMacro("println", <<CfgP>>, Garbage),
       ItemMacro("ast_struct", <<>>, Garbage),
       ItemMacro("ast_struct", <<CfgQ>>, NamedItem),
       ItemMacro("ast_struct", <<>>, StructDecl("Item", TRUE, "Unit", <<>>)),
       ItemMacro("ast_struct", <<CfgR>>, StructDecl("Span", FALSE, "Tuple",
                                                    <<Field(NoIdent, <<"Ident">>)>>)),
       ItemMacro("ast_struct", <<>>, StructDecl("span", FALSE, "Struct", <<>>)),
       ItemMacro("ast_enum", <<CfgQ>>, OpEnum),
       ItemMacro("ast_enum", <<>>,
                 EnumDecl("Mode", <<Variant("Plain", "Tuple", <<>>),
                                    Variant("Raw", "Unit", <<>>)>>)),
       ItemMacro("ast_enum", <<>>,
                 EnumDecl("Vis", <<Variant("Pub", "Unit", <<>>),
                                   Variant("In", "Struct",
                                           <<Field("path", <<"Ident">>)>>)>>)),
       ItemMacro("ast_struct", <<>>,
                 StructDecl("Wrap", FALSE, "Tuple", <<Field(NoIdent, <<"Box">>)>>)),
       ItemMacro("ast_enum_of_structs", <<CfgQ>>,
                 EnumDecl("Abi",
                          <<EosInline("Named",
                                      StructDecl("Abi", FALSE, "Tuple",
                                                 <<Field(NoIdent, <<"Ident">>)>>))>>)),
       ItemMod("visit", <<CfgP>>, FALSE),
       ItemMod("visit_mut", <<>>, FALSE) >>

\* the files beside the crate root; a name that is no key here has no file
Files ==
    [ expr |-> [parses |-> TRUE,
                items |-> << ItemMacro("ast_enum_of_structs", <<CfgQ, Doc>>, ExprEos),
                             ItemMod("lit", <<CfgQ>>, FALSE),
                             ItemMacro("ast_struct", <<>>,
                                       StructDecl("Abi", FALSE, "Unit", <<>>)) >>],
      lit  |-> [parses |-> TRUE,
                items |-> << ItemMacro("ast_struct", <<CfgR>>, TupleLit) >>],
      ty   |-> [parses |-> FALSE, items |-> <<>>],
      fold |-> [parses |-> TRUE,
                items |-> << ItemOther,
                             ItemMacro("ast_struct", <<>>,
                                       StructDecl("Nothing", FALSE, "Unit", <<>>)) >>],
      visit |-> [parses |-> FALSE, items |-> <<>>],
      bad  |-> [parses |-> TRUE,
                items |-> << ItemMacro("ast_enum_of_structs", <<>>, Garbage) >>],
      deep |-> [parses |-> TRUE,
                items |-> << ItemMacro("ast_struct", <<>>,
                                       StructDecl("Nothing", FALSE, "Unit", <<>>)),
                             ItemMod("ty", <<CfgQ>>, FALSE) >>] ]

Exists(name) == name = SYN_CRATE_ROOT \/ name \in DOMAIN Files

Parses(name) == name = SYN_CRATE_ROOT \/ Files[name].parses

Items(name) ==
    IF name = SYN_CRATE_ROOT THEN [i \in 1..Len(root) |-> ItemPool[root[i]]]
    ELSE Files[name].items

(***************************************************************************)
(* Lookup = BTreeMap<Ident, AstItem>: a function on the set of its keys,   *)
(* iterated in the order of the keys.  IdentOrder lists the identifiers of *)
(* the model in that order (the order of their strings, byte by byte).     *)
(***************************************************************************)
IdentOrder ==
    <<"Abi", "Box", "Eof", "Expr", "ExprBox", "ExprParen", "Ident", "Item", "Lit",
      "Mode", "Nil", "Nothing", "Op", "Option", "Span", "Vec", "Vis", "Wrap", "span">>

Rank(id) == CHOOSE i \in 1..Len(IdentOrder) : IdentOrder[i] = id

IdentLess(a, b) == Rank(a) < Rank(b)

EmptyLookup == [id \in {} |-> {}]

\* as Insert, were an entry of the same key kept
InsertKeep(map, key, value) ==
    [k \in DOMAIN map \cup {key} |-> IF k \in DOMAIN map THEN map[k] ELSE value]

\* BTreeMap::insert
Insert(map, key, value) ==
    [k \in DOMAIN map \cup {key} |-> IF k = key THEN value ELSE map[k]]

\* as First, were the table visited from its greatest key down
Last(keys) == CHOOSE k \in keys : \A other \in keys \ {k} : IdentLess(other, k)

First(keys) == CHOOSE k \in keys : \A other \in keys \ {k} : IdentLess(k, other)

\* the keys in the order BTreeMap::values visits them
RECURSIVE Ordered(_)
Ordered(keys) ==
    IF keys = {} THEN <<>>
    ELSE <<First(keys)>> \o Ordered(keys \ {First(keys)})

Values(map) == [i \in 1..Cardinality(DOMAIN map) |-> map[Ordered(DOMAIN map)[i]]]
(***************************************************************************)
(* mod codegen.                                                            *)
(***************************************************************************)
EmptyState ==
    [visit_trait |-> <<>>, visit_impl |-> <<>>, visit_mut_trait |-> <<>>,
     visit_mut_impl |-> <<>>, fold_trait |-> <<>>, fold_impl |-> <<>>,
     spanned_impls |-> <<>>]

Buffers ==
    {"visit_trait", "visit_impl", "visit_mut_trait", "visit_mut_impl",
     "fold_trait", "fold_impl", "spanned_impls"}

\* inflections' to_snake_case, on the identifiers of IdentOrder
SnakeCase ==
    <<"abi", "box", "eof", "expr", "expr_box", "expr_paren", "ident", "item", "lit",
      "mode", "nil", "nothing", "op", "option", "span", "vec", "vis", "wrap", "span">>

under_name(name) == SnakeCase[Rank(name)]

\* an index as format!("{}", idx) prints it
Decimal(idx) == <<"0", "1", "2", "3", "4", "5", "6", "7", "8", "9">>[idx + 1]

None == [some |-> FALSE, panic |-> FALSE, val |-> <<>>, full |-> FALSE]

Some(val, eos_full) == [some |-> TRUE, panic |-> FALSE, val |-> val, full |-> eos_full]

\* panic!("Expected at least 1 type argument here")
Panic == [some |-> FALSE, panic |-> TRUE, val |-> <<>>, full |-> FALSE]

\* as OrElse, were the rest tried before the first
OrElseRestFirst(first, rest) == IF rest.some \/ rest.panic THEN rest ELSE first

\* `if let Some(res) = first { return Some(res); }`, then the rest
OrElse(first, rest) == IF first.some \/ first.panic THEN first ELSE rest

\* `if let Some(val) = inner { return Some(format!(..val..)); }`, then None
Format(inner, before, after) ==
    IF inner.some THEN Some(before \o inner.val \o after, inner.full)
    ELSE IF inner.panic THEN inner
    ELSE None

\* last_segment(ty) is None
NoLastSegment(ty) == Head(ty) = NOT_A_PATH

\* first_arg panics on the arguments of segment Head(ty)
FirstArgPanics(ty) == Len(ty) = 1 \/ ty[2] = NOT_A_TYPE

first_arg(ty) == Tail(ty)

Borrowed(tokens) == [owned |-> FALSE, tokens |-> tokens]

Owned(tokens) == [owned |-> TRUE, tokens |-> tokens]

ref_tokens(name) == IF name.owned THEN <<"&">> \o name.tokens ELSE name.tokens

ref_mut_tokens(name) == IF name.owned THEN <<"&mut">> \o name.tokens ELSE name.tokens

owned_tokens(name) == IF name.owned THEN name.tokens ELSE <<"*">> \o name.tokens

simple_visit(type_name, lkp, kind, name) ==
    IF type_name \in DOMAIN lkp
    THEN Some(CASE kind = "Visit" ->
                     <<"_visitor.visit_", under_name(type_name), "(">>
                     \o ref_tokens(name) \o <<")">>
                [] kind = "VisitMut" ->
                     <<"_visitor.visit_", under_name(type_name), "_mut", "(">>
                     \o ref_mut_tokens(name) \o <<")">>
                [] kind = "Fold" ->
                     <<"_visitor.fold_", under_name(type_name), "(">>
                     \o owned_tokens(name) \o <<")">>,
              lkp[type_name].eos_full)
    ELSE None

\* as box_visit, were the folded value not put into a Box again
box_visit_unboxed(seg, lkp, kind, name) ==
    OrElse(simple_visit(Head(seg), lkp, kind, name),
           IF Head(seg) # "Box" THEN None
           ELSE IF FirstArgPanics(seg) THEN Panic
           ELSE IF NoLastSegment(first_arg(seg)) THEN None
           ELSE simple_visit(Head(first_arg(seg)), lkp, kind,
                             IF kind = "Fold" THEN Owned(<<"*">> \o name.tokens)
                             ELSE name))

box_visit(seg, lkp, kind, name) ==
    OrElse(simple_visit(Head(seg), lkp, kind, name),
           IF Head(seg) # "Box" THEN None
           ELSE IF FirstArgPanics(seg) THEN Panic
           ELSE IF NoLastSegment(first_arg(seg)) THEN None
           ELSE Format(simple_visit(Head(first_arg(seg)), lkp, kind,
                                    IF kind = "Fold" THEN Owned(<<"*">> \o name.tokens)
                                    ELSE name),
                       IF kind = "Fold" THEN <<"Box::new", "(">> ELSE <<>>,
                       IF kind = "Fold" THEN <<")">> ELSE <<>>))

\* as vec_visit, were the element of a sequence resolved as a sequence too
RECURSIVE vec_visit_nested(_, _, _, _)
vec_visit_nested(seg, lkp, kind, name) ==
    OrElse(box_visit(seg, lkp, kind, name),
           IF Head(seg) \notin {"Vec", "Delimited"} THEN None
           ELSE IF FirstArgPanics(seg) THEN Panic
           ELSE IF NoLastSegment(first_arg(seg)) THEN None
           ELSE Format(vec_visit_nested(first_arg(seg), lkp, kind,
                                        IF kind = "Fold" THEN Owned(<<"it">>)
                                        ELSE Borrowed(<<"it">>)),
                       <<"for it in ">> \o ref_tokens(name) \o <<"{">>,
                       <<"}">>))

vec_visit(seg, lkp, kind, name) ==
    OrElse(box_visit(seg, lkp, kind, name),
           IF Head(seg) \notin {"Vec", "Delimited"} THEN None
           ELSE IF FirstArgPanics(seg) THEN Panic
           ELSE IF NoLastSegment(first_arg(seg)) THEN None
           ELSE Format(box_visit(first_arg(seg), lkp, kind,
                                 IF kind = "Fold" THEN Owned(<<"it">>)
                                 ELSE Borrowed(<<"it">>)),
                       CASE kind = "Visit" /\ Head(seg) = "Vec" ->
                              <<"for it in ">> \o ref_tokens(name) \o <<"{">>
                         [] kind = "Visit" /\ Head(seg) # "Vec" ->
                              <<"for el in ">> \o ref_tokens(name)
                              \o <<"{", "let it = el.item", "(", ")", "; ">>
                         [] kind = "VisitMut" /\ Head(seg) = "Vec" ->
                              <<"for it in ">> \o ref_mut_tokens(name) \o <<"{">>
                         [] kind = "VisitMut" /\ Head(seg) # "Vec" ->
                              <<"for mut el in ">> \o ref_mut_tokens(name)
                              \o <<"{", "let it = el.item_mut", "(", ")", "; ">>
                         [] kind = "Fold" ->
                              <<"FoldHelper::lift", "(">> \o owned_tokens(name)
                              \o <<", ", "|it|", "{">>,
                       IF kind = "Fold" THEN <<"}", ")">> ELSE <<"}">>))

\* as option_visit, were the value of an option resolved as an option too
RECURSIVE option_visit_nested(_, _, _, _)
option_visit_nested(seg, lkp, kind, name) ==
    OrElse(vec_visit(seg, lkp, kind, name),
           IF Head(seg) # "Option" THEN None
           ELSE IF FirstArgPanics(seg) THEN Panic
           ELSE IF NoLastSegment(first_arg(seg)) THEN None
           ELSE Format(option_visit_nested(first_arg(seg), lkp, kind,
                                           IF kind = "Fold" THEN Owned(<<"it">>)
                                           ELSE Borrowed(<<"it">>)),
                       <<"if let Some", "(", "ref it", ")", " = ">>
                       \o owned_tokens(name) \o <<"{">>,
                       <<"}">>))

option_visit(seg, lkp, kind, name) ==
    OrElse(vec_visit(seg, lkp, kind, name),
           IF Head(seg) # "Option" THEN None
           ELSE IF FirstArgPanics(seg) THEN Panic
           ELSE IF NoLastSegment(first_arg(seg)) THEN None
           ELSE Format(vec_visit(first_arg(seg), lkp, kind,
                                 IF kind = "Fold" THEN Owned(<<"it">>)
                                 ELSE Borrowed(<<"it">>)),
                       CASE kind = "Visit" ->
                              <<"if let Some", "(", "ref it", ")", " = ">>
                              \o owned_tokens(name) \o <<"{">>
                         [] kind = "VisitMut" ->
                              <<"if let Some", "(", "ref mut it", ")", " = ">>
                              \o owned_tokens(name) \o <<"{">>
                         [] kind = "Fold" ->
                              <<"(">> \o owned_tokens(name)
                              \o <<")", ".map", "(", "|it|", "{">>,
                       IF kind = "Fold" THEN <<"}", ")">> ELSE <<"}">>))

\* as Visited, were the guard helper never put around the expression
VisitedUnguarded(res, kind, name) ==
    IF res.panic THEN [panic |-> TRUE, text |-> <<>>]
    ELSE IF res.some THEN [panic |-> FALSE, text |-> res.val]
    ELSE IF kind = "Fold"
    THEN [panic |-> FALSE, text |-> owned_tokens(name)]
    ELSE [panic |-> FALSE, text |-> <<"// Skipped field ">> \o name.tokens]

\* as Visited, were the skip marker the fallback of the transform as well
VisitedAlwaysSkipped(res, kind, name) ==
    IF res.panic THEN [panic |-> TRUE, text |-> <<>>]
    ELSE IF res.some
    THEN [panic |-> FALSE,
          text |-> IF res.full THEN <<"full!", "(">> \o res.val \o <<")">>
                   ELSE res.val]
    ELSE [panic |-> FALSE, text |-> <<"// Skipped field ">> \o name.tokens]

\* what visit makes of the Option that option_visit returned
Visited(res, kind, name) ==
    IF res.panic THEN [panic |-> TRUE, text |-> <<>>]
    ELSE IF res.some
    THEN [panic |-> FALSE,
          text |-> IF res.full THEN <<"full!", "(">> \o res.val \o <<")">>
                   ELSE res.val]
    ELSE IF kind = "Fold"
    THEN [panic |-> FALSE, text |-> owned_tokens(name)]
    ELSE [panic |-> FALSE, text |-> <<"// Skipped field ">> \o name.tokens]

\* visit returns the text, here with whether it panicked instead
visit(ty, lkp, kind, name) ==
    Visited(IF NoLastSegment(ty) THEN None ELSE option_visit(ty, lkp, kind, name),
            kind, name)

(***************************************************************************)
(* generate.  Its parts take and give the State so far together with       *)
(* whether a panic has ended the call; nothing is pushed after a panic.    *)
(***************************************************************************)
Going(st) == [state |-> st, panic |-> FALSE]

\* as Push, were the text put before what the buffer holds
PushFront(acc, buffer, text) ==
    IF acc.panic THEN acc ELSE Going([acc.state EXCEPT ![buffer] = text \o @])

Push(acc, buffer, text) ==
    IF acc.panic THEN acc ELSE Going([acc.state EXCEPT ![buffer] = @ \o text])

\* the same or different text pushed to the three _impl buffers
Push3(acc, v, vm, f) ==
    IF acc.panic THEN acc
    ELSE Going([acc.state EXCEPT !.visit_impl = @ \o v, !.visit_mut_impl = @ \o vm,
                                 !.fold_impl = @ \o f])

\* as PanicIf, were the unsupported shapes passed over in silence
PanicIfNever(acc, cond) == acc

PanicIf(acc, cond) == IF cond THEN [acc EXCEPT !.panic = TRUE] ELSE acc

\* the three texts of one field pushed, unless visit panicked
PushField(acc, v, vm, f, label) ==
    IF v.panic \/ vm.panic \/ f.panic THEN PanicIf(acc, TRUE)
    ELSE Push3(acc, v.text \o <<";\n">>, vm.text \o <<";\n">>,
                    label \o f.text \o <<",\n">>)

Binding(idx) == <<"_binding_", Decimal(idx)>>

\* the patterns `ref _binding_0, ` of a tuple variant, from field idx on
RECURSIVE Bindings(_, _, _)
Bindings(acc, fields, idx) ==
    IF idx >= Len(fields) THEN acc
    ELSE Bindings(Push3(acc, <<"ref ">> \o Binding(idx) \o <<", ">>,
                             <<"ref mut ">> \o Binding(idx) \o <<", ">>,
                             Binding(idx) \o <<", ">>),
                  fields, idx + 1)

\* `for (field, binding) in fields` of a tuple variant, from field idx on
RECURSIVE VariantFields(_, _, _, _)
VariantFields(acc, lkp, fields, idx) ==
    IF acc.panic \/ idx >= Len(fields) THEN acc
    ELSE VariantFields(
           PushField(acc,
                     visit(fields[idx + 1].ty, lkp, "Visit", Borrowed(Binding(idx))),
                     visit(fields[idx + 1].ty, lkp, "VisitMut", Borrowed(Binding(idx))),
                     visit(fields[idx + 1].ty, lkp, "Fold", Owned(Binding(idx))),
                     <<>>),
           lkp, fields, idx + 1)

ARROW == <<")", " => ", "{", "\n">>

CLOSE == <<"}", "\n">>

\* VariantData::Tuple, up to the fields
TupleArm(acc, variant) ==
    Push(Push3(Push3(Bindings(Push3(acc, <<variant.ident, "(">>,
                                         <<variant.ident, "(">>,
                                         <<variant.ident, "(">>),
                              variant.fields, 0),
                     ARROW, ARROW, ARROW),
               IF variant.fields = <<>> THEN <<"{", "}">> ELSE <<>>,
               IF variant.fields = <<>> THEN ARROW ELSE <<>>,
               IF variant.fields = <<>> THEN ARROW ELSE <<>>),
         "fold_impl", <<variant.ident, "(", "\n">>)

\* one turn of `for variant in &e.variants`
GenVariant(acc, lkp, variant) ==
    CASE variant.data = "Struct" ->
           \* panic!("Doesn't support enum struct variants")
           PanicIf(acc, TRUE)
      [] variant.data = "Unit" ->
           Push3(acc, <<variant.ident, " => ", "{", "}", "\n">>,
                      <<variant.ident, " => ", "{", "}", "\n">>,
                      <<variant.ident, " => ", "{", variant.ident, "}", "\n">>)
      [] variant.data = "Tuple" ->
           Push3(Push(VariantFields(TupleArm(acc, variant), lkp, variant.fields, 0),
                      "fold_impl", <<")", "\n">>),
                 CLOSE, CLOSE, CLOSE)

RECURSIVE GenVariants(_, _, _)
GenVariants(acc, lkp, variants) ==
    IF acc.panic \/ variants = <<>> THEN acc
    ELSE GenVariants(GenVariant(acc, lkp, Head(variants)), lkp, Tail(variants))

UseDecl(s) == <<"use ::", s.ident, "::*;", "\n">>

\* Body::Enum
GenEnum(acc, lkp, s) ==
    Push3(GenVariants(Push3(Push3(acc, UseDecl(s), UseDecl(s), UseDecl(s)),
                            <<"match *_i", "{", "\n">>, <<"match *_i", "{", "\n">>,
                            <<"match _i", "{", "\n">>),
                      lkp, s.body.variants),
          CLOSE, CLOSE, CLOSE)

\* the operand `_i.#id` of field idx of a struct
RefToks(data, fields, idx) ==
    Owned(<<"_i", ".", IF data = "Struct" THEN fields[idx + 1].ident ELSE Decimal(idx)>>)

\* `for (field, ref_toks) in fields` of a struct, from field idx on
RECURSIVE StructFields(_, _, _, _, _)
StructFields(acc, lkp, data, fields, idx) ==
    IF acc.panic \/ idx >= Len(fields) THEN acc
    ELSE StructFields(
           PushField(acc,
                     visit(fields[idx + 1].ty, lkp, "Visit", RefToks(data, fields, idx)),
                     visit(fields[idx + 1].ty, lkp, "VisitMut", RefToks(data, fields, idx)),
                     visit(fields[idx + 1].ty, lkp, "Fold", RefToks(data, fields, idx)),
                     IF fields[idx + 1].ident # NoIdent
                     THEN <<fields[idx + 1].ident, ": ">> ELSE <<>>),
           lkp, data, fields, idx + 1)

\* as GenStruct, were every record folded as one with named fields
GenStructBraces(acc, lkp, s) ==
    Push(StructFields(Push(acc, "fold_impl", <<s.ident, "{", "\n">>),
                      lkp, s.body.data,
                      IF s.body.data = "Unit" THEN <<>> ELSE s.body.fields, 0),
         "fold_impl", <<"}", "\n">>)

\* Body::Struct
GenStruct(acc, lkp, s) ==
    Push(StructFields(Push(acc, "fold_impl",
                           CASE s.body.data = "Struct" -> <<s.ident, "{", "\n">>
                             [] s.body.data = "Tuple"  -> <<s.ident, "(", "\n">>
                             [] s.body.data = "Unit"   -> <<"_i", "\n">>),
                      lkp, s.body.data,
                      IF s.body.data = "Unit" THEN <<>> ELSE s.body.fields, 0),
         "fold_impl",
         CASE s.body.data = "Struct" -> <<"}", "\n">>
           [] s.body.data = "Tuple"  -> <<")", "\n">>
           [] s.body.data = "Unit"   -> <<>>)

\* the span-aggregation implementation of a node
SpannedImpl(s) ==
    s.features
    \o <<"\n", "impl Spanned for ::", s.ident, "{", "\n",
         "fn span", "(", "&self", ")", " -> Option<::proc_macro::Span>", "{", "\n",
         "let mut visitor = SpanVisitor::default", "(", ")", ";\n",
         "visitor.visit_", under_name(s.ident), "(", "self", ")", ";\n",
         "visitor.span", "\n", "}", "\n", "}", "\n\n">>

EmitsSpanned(s) == under_name(s.ident) # "span"

\* the six pushes that open a node's methods and functions
GenHeaders(st, s) ==
    [st EXCEPT
       !.visit_trait = @ \o s.features
          \o <<"\n", "fn visit_", under_name(s.ident), "(", "&mut self, i: &'ast ",
               s.ident, ")", "{", "visit_", under_name(s.ident), "(", "self, i", ")",
               "}", "\n">>,
       !.visit_mut_trait = @ \o s.features
          \o <<"\n", "fn visit_", under_name(s.ident), "_mut", "(",
               "&mut self, i: &mut ", s.ident, ")", "{", "visit_", under_name(s.ident),
               "_mut", "(", "self, i", ")", "}", "\n">>,
       !.fold_trait = @ \o s.features
          \o <<"\n", "fn fold_", under_name(s.ident), "(", "&mut self, i: ", s.ident,
               ")", " -> ", s.ident, "{", "fold_", under_name(s.ident), "(", "self, i",
               ")", "}", "\n">>,
       !.visit_impl = @ \o s.features
          \o <<"\n", "pub fn visit_", under_name(s.ident),
               "<'ast, V: Visitor<'ast> + ?Sized>", "(", "_visitor: &mut V, _i: &'ast ",
               s.ident, ")", "{", "\n">>,
       !.visit_mut_impl = @ \o s.features
          \o <<"\n", "pub fn visit_", under_name(s.ident), "_mut",
               "<V: VisitorMut + ?Sized>", "(", "_visitor: &mut V, _i: &mut ", s.ident,
               ")", "{", "\n">>,
       !.fold_impl = @ \o s.features
          \o <<"\n", "pub fn fold_", under_name(s.ident), "<V: Folder + ?Sized>", "(",
               "_visitor: &mut V, _i: ", s.ident, ")", " -> ", s.ident, "{", "\n">>]

\* the body of the node, Body::Enum or Body::Struct
GenBody(acc, lkp, s) ==
    IF s.body.kind = "Enum" THEN GenEnum(acc, lkp, s) ELSE GenStruct(acc, lkp, s)

\* generate returns nothing; here it returns the State it leaves and whether
\* it panicked
generate(st, lkp, s) ==
    Push3(GenBody(Push(Going(GenHeaders(st, s)), "spanned_impls",
                       IF EmitsSpanned(s) THEN SpannedImpl(s) ELSE <<>>),
                  lkp, s),
          CLOSE, CLOSE, CLOSE)

(***************************************************************************)
(* load_file, one item of a file at a time.  A frame of the stack is one   *)
(* call: the file, the features it was called with, the index of the next  *)
(* item, and (history) the attributes of the module declarations the call  *)
(* came through.  An Err leaves every call at once (each `?`) and main     *)
(* unwraps it: the run ends.                                               *)
(***************************************************************************)
Frame(name, features, via) ==
    [name |-> name, features |-> features, idx |-> 1, via |-> via]

Top == stack[Len(stack)]

AtItem == pc = "load_file" /\ Top.idx <= Len(Items(Top.name))

Item == Items(Top.name)[Top.idx]

\* as Loads, were the Err of syn::parse_file dropped
LoadsUnparsed(name) == Exists(name)

\* File::open, read_to_string and syn::parse_file all succeed
Loads(name) == Exists(name) /\ Parses(name)

\* as Continue, were the #[cfg] attributes of the item left behind it in
\* the features of the file
ContinueLeaking ==
    [stack EXCEPT ![Len(stack)] =
       [@ EXCEPT !.idx = @ + 1,
                 !.features = IF Item.item = "Other" THEN @
                              ELSE get_features(Item.attrs, @)]]

Continue == [stack EXCEPT ![Len(stack)].idx = @ + 1]

RECOGNIZED == {"ast_struct", "ast_enum", "ast_enum_of_structs"}

\* syn::parse_tokens::<parsing::...>
Found(item) ==
    CASE item.path = "ast_struct" -> AstStruct(item.tokens)
      [] item.path = "ast_enum" -> AstEnum(item.tokens)
      [] item.path = "ast_enum_of_structs" -> AstEnumOfStructs(item.tokens)

\* `for mut item in found`: the features recorded, the item inserted
RECURSIVE InsertFound(_, _, _)
InsertFound(map, found, features) ==
    IF found = <<>> THEN map
    ELSE InsertFound(Insert(map, Head(found).ident,
                            [Head(found) EXCEPT !.features = @ \o features]),
                     Tail(found), features)

Start ==
    /\ pc = "start"
    /\ pc' = "load_file"
    /\ stack' = <<Frame(SYN_CRATE_ROOT, <<>>, <<>>)>>
    /\ UNCHANGED <<sideVars, root, lookup, cursor, state, disk, origin, emitted>>

\* Item::Mod with content: not inspected
ModInline ==
    /\ AtItem /\ Item.item = "Mod" /\ Item.content
    /\ stack' = Continue
    /\ UNCHANGED <<sideVars, root, pc, lookup, cursor, state, disk, origin, emitted>>

ModIgnored ==
    /\ AtItem /\ Item.item = "Mod" /\ ~Item.content
    /\ Item.ident \in IGNORED_MODS
    /\ stack' = Continue
    /\ UNCHANGED <<sideVars, root, pc, lookup, cursor, state, disk, origin, emitted>>

\* the recursive call, when the file of the module loads
ModLoad ==
    /\ AtItem /\ Item.item = "Mod" /\ ~Item.content
    /\ Item.ident \notin IGNORED_MODS
    /\ Loads(Item.ident)
    /\ stack' = Append(Continue,
                       Frame(Item.ident, get_features(Item.attrs, Top.features),
                             Append(Top.via, Item.attrs)))
    /\ UNCHANGED <<sideVars, root, pc, lookup, cursor, state, disk, origin, emitted>>

\* the recursive call, when it does not
ModFail ==
    /\ AtItem /\ Item.item = "Mod" /\ ~Item.content
    /\ Item.ident \notin IGNORED_MODS
    /\ ~Loads(Item.ident)
    /\ pc' = "load_failed"
    /\ stack' = <<>>
    /\ UNCHANGED <<sideVars, root, lookup, cursor, state, disk, origin, emitted>>

MacroOther ==
    /\ AtItem /\ Item.item = "Macro" /\ Item.path \notin RECOGNIZED
    /\ stack' = Continue
    /\ UNCHANGED <<sideVars, root, pc, lookup, cursor, state, disk, origin, emitted>>

MacroFail ==
    /\ AtItem /\ Item.item = "Macro" /\ Item.path \in RECOGNIZED
    /\ Found(Item) = <<>>
    /\ pc' = "load_failed"
    /\ stack' = <<>>
    /\ UNCHANGED <<sideVars, root, lookup, cursor, state, disk, origin, emitted>>

MacroInsert ==
    /\ AtItem /\ Item.item = "Macro" /\ Item.path \in RECOGNIZED
    /\ Found(Item) # <<>>
    /\ LET features == get_features(Item.attrs, Top.features)
           found == Found(Item)[1]
       IN  /\ lookup' = InsertFound(lookup, found, features)
           /\ origin' = [id \in DOMAIN lookup' |->
                           IF \E i \in 1..Len(found) : found[i].ident = id
                           THEN [terminal |-> FALSE,
                                 attrs |-> Append(Top.via, Item.attrs)]
                           ELSE origin[id]]
    /\ stack' = Continue
    /\ UNCHANGED <<sideVars, root, pc, cursor, state, disk, emitted>>

OtherItem ==
    /\ AtItem /\ Item.item = "Other"
    /\ stack' = Continue
    /\ UNCHANGED <<sideVars, root, pc, lookup, cursor, state, disk, origin, emitted>>

\* Ok(()) at the end of the items
Return ==
    /\ pc = "load_file" /\ Top.idx > Len(Items(Top.name))
    /\ stack' = SubSeq(stack, 1, Len(stack) - 1)
    /\ pc' = IF Len(stack) = 1 THEN "terminals" ELSE pc
    /\ UNCHANGED <<sideVars, root, lookup, cursor, state, disk, origin, emitted>>

(***************************************************************************)
(* main.                                                                   *)
(***************************************************************************)
\* as Terminal, were the terminal types marked #full
TerminalFull(tt) == AstItem(tt, BodyStruct("Unit", <<>>), <<>>, TRUE)

Terminal(tt) == AstItem(tt, BodyStruct("Unit", <<>>), <<>>, FALSE)

\* one turn of `for &tt in TERMINAL_TYPES`
InsertTerminal ==
    /\ pc = "terminals"
    /\ LET tt == TERMINAL_TYPES[cursor + 1]
       IN  /\ lookup' = Insert(lookup, tt, Terminal(tt))
           /\ origin' = [id \in DOMAIN lookup' |->
                           IF id = tt THEN [terminal |-> TRUE, attrs |-> <<>>]
                           ELSE origin[id]]
    /\ cursor' = IF cursor + 1 = Len(TERMINAL_TYPES) THEN 0 ELSE cursor + 1
    /\ pc' = IF cursor + 1 = Len(TERMINAL_TYPES) THEN "generate" ELSE pc
    /\ UNCHANGED <<sideVars, root, stack, state, disk, emitted>>

Lengths(st) == [b \in Buffers |-> Len(st[b])]

\* one turn of `for s in lookup.values()`: generate has left r
Generated(s, r) ==
    /\ state' = r.state
    /\ emitted' = Append(emitted, [ident |-> s.ident, at |-> Lengths(state),
                                   panic |-> r.panic])
    /\ pc' = IF r.panic THEN "generate_panicked"
             ELSE IF cursor + 1 = Cardinality(DOMAIN lookup) THEN "write"
             ELSE pc
    /\ cursor' = IF r.panic THEN cursor
                 ELSE IF cursor + 1 = Cardinality(DOMAIN lookup) THEN 0
                 ELSE cursor + 1

Generate ==
    /\ pc = "generate"
    /\ Generated(Values(lookup)[cursor + 1],
                 generate(state, lookup, Values(lookup)[cursor + 1]))
    /\ UNCHANGED <<sideVars, root, stack, lookup, disk, origin>>

\* a file of ../src/gen: as the last run left it, or as this run has it
Stale == [fresh |-> FALSE, complete |-> FALSE, trait |-> <<>>, impl |-> <<>>]

\* File::create has truncated it and write! has failed
Truncated == [fresh |-> TRUE, complete |-> FALSE, trait |-> <<>>, impl |-> <<>>]

\* what write! puts between the boilerplate of the file
Document(name) ==
    CASE name = FOLD_SRC ->
           [fresh |-> TRUE, complete |-> TRUE,
            trait |-> state.fold_trait, impl |-> state.fold_impl]
      [] name = VISIT_SRC ->
           [fresh |-> TRUE, complete |-> TRUE,
            trait |-> state.visit_trait, impl |-> state.visit_impl]
      [] name = VISIT_MUT_SRC ->
           [fresh |-> TRUE, complete |-> TRUE,
            trait |-> state.visit_mut_trait, impl |-> state.visit_mut_impl]
      [] name = SPANNED_SRC ->
           [fresh |-> TRUE, complete |-> TRUE,
            trait |-> <<>>, impl |-> state.spanned_impls]

\* File::create(..).unwrap() and write!(..).unwrap() of the next file
WriteFile ==
    /\ pc = "write"
    /\ disk' = [disk EXCEPT ![OUTPUTS[cursor + 1]] = Document(OUTPUTS[cursor + 1])]
    /\ cursor' = cursor + 1
    /\ pc' = IF cursor + 1 = Len(OUTPUTS) THEN "done" ELSE pc
    /\ UNCHANGED <<sideVars, root, stack, lookup, state, origin, emitted>>

\* File::create fails: the file is as it was
CreateFails ==
    /\ pc = "write"
    /\ pc' = "write_panicked"
    /\ UNCHANGED <<sideVars, root, stack, lookup, cursor, state, disk, origin, emitted>>

\* write! fails: the file was truncated by File::create
WriteFails ==
    /\ pc = "write"
    /\ disk' = [disk EXCEPT ![OUTPUTS[cursor + 1]] = Truncated]
    /\ pc' = "write_panicked"
    /\ UNCHANGED <<sideVars, root, stack, lookup, cursor, state, origin, emitted>>

Init ==
    /\ root \in UNION {[1..n -> 1..Len(ItemPool)] : n \in 0..MaxItems}
    /\ pc = "start"
    /\ stack = <<>>
    /\ lookup = EmptyLookup
    /\ cursor = 0
    /\ state = EmptyState
    /\ disk = [name \in Range(OUTPUTS) |-> Stale]
    /\ origin = EmptyLookup
    /\ emitted = <<>>
    /\ VisitIdle /\ DetIdle /\ EvalIdle /\ SpanIdle /\ FoldIdle

Next ==
    \/ Start
    \/ ModInline
    \/ ModIgnored
    \/ ModLoad
    \/ ModFail
    \/ MacroOther
    \/ MacroFail
    \/ MacroInsert
    \/ OtherItem
    \/ Return
    \/ InsertTerminal
    \/ Generate
    \/ WriteFile
    \/ CreateFails
    \/ WriteFails

Spec == Init /\ [][Next]_vars
(***************************************************************************)
(* What the claims speak of.                                               *)
(***************************************************************************)
Extracting == pc \in {"start", "load_file", "terminals"}

Emitting == pc \in {"generate", "generate_panicked"}

Writing == pc \in {"write", "write_panicked", "done"}

Untouched == \A name \in Range(OUTPUTS) : disk[name] = Stale

\* the text the i-th generate call appended to a buffer
Chunk(i, buffer) ==
    SubSeq(state[buffer], emitted[i].at[buffer] + 1,
           IF i < Len(emitted) THEN emitted[i + 1].at[buffer] ELSE Len(state[buffer]))

\* every closing token of text closes an opening one, and none stays open
RECURSIVE Nests(_, _, _, _)
Nests(text, open, close, depth) ==
    IF depth < 0 THEN FALSE
    ELSE IF text = <<>> THEN depth = 0
    ELSE Nests(Tail(text), open, close,
               depth + (IF Head(text) = open THEN 1 ELSE 0)
                     - (IF Head(text) = close THEN 1 ELSE 0))

Balanced(text) == Nests(text, "{", "}", 0) /\ Nests(text, "(", ")", 0)

HasStructVariant(s) ==
    /\ s.body.kind = "Enum"
    /\ \E i \in 1..Len(s.body.variants) : s.body.variants[i].data = "Struct"

\* an item that makes load_file return Err, told from the input alone
RECURSIVE Fails(_)
Fails(item) ==
    CASE item.item = "Mod" ->
           /\ ~item.content
           /\ item.ident \notin IGNORED_MODS
           /\ \/ ~Exists(item.ident)
              \/ ~Parses(item.ident)
              \/ \E i \in 1..Len(Files[item.ident].items) :
                    Fails(Files[item.ident].items[i])
      [] item.item = "Macro" ->
           /\ item.path \in RECOGNIZED
           /\ ~item.tokens.wellformed
      [] OTHER -> FALSE

(***************************************************************************)
(* C2.  A table that holds a tagged union with a variant of named fields   *)
(* never gets past emission: the generate call on that node panics, main   *)
(* reaches no File::create, and no output file is created or written,      *)
(* wherever the node stands in the order of the table.                     *)
(***************************************************************************)
C2_StructVariantAbortsBeforeAnyWrite ==
    (~Extracting /\ pc # "load_failed"
       /\ \E id \in DOMAIN lookup : HasStructVariant(lookup[id]))
    => /\ Emitting
       /\ Untouched
       /\ \A i \in 1..Len(emitted) :
            HasStructVariant(lookup[emitted[i].ident]) => emitted[i].panic
       /\ pc = "generate_panicked" => ~ENABLED Next

\* the panic happened on a union that is not the first node of the table
C2_Witness ==
    /\ pc = "generate_panicked"
    /\ Len(emitted) > 2
    /\ HasStructVariant(lookup[emitted[Len(emitted)].ident])
    /\ Untouched

(***************************************************************************)
(* C3.  Nothing is emitted or written while load_file runs; load_file      *)
(* never goes on past an item that fails (a module whose file is missing   *)
(* or does not parse or fails further down, a recognized macro that does   *)
(* not parse); and a failed extraction ends the run with no generate call  *)
(* and no output file, whatever the table already holds.                   *)
(***************************************************************************)
C3_ExtractionFailureEndsRun ==
    /\ (Extracting \/ pc = "load_failed") =>
          emitted = <<>> /\ state = EmptyState /\ Untouched
    /\ ~Extracting => stack = <<>>
    /\ pc = "load_failed" => ~ENABLED Next
    /\ \A k \in 1..Len(stack) : \A j \in 1..Len(Items(stack[k].name)) :
          Fails(Items(stack[k].name)[j]) =>
             \/ stack[k].idx <= j
             \/ stack[k].idx = j + 1 /\ k < Len(stack)
    /\ (pc \in {"terminals"} \/ Emitting \/ Writing) =>
          \A j \in 1..Len(root) : ~Fails(ItemPool[root[j]])

\* the run has ended on a failure below the crate root, entries in the table
C3_Witness ==
    /\ pc = "load_failed"
    /\ DOMAIN lookup # {}
    /\ \E j \in 1..Len(root) :
          ItemPool[root[j]].item = "Mod" /\ Loads(ItemPool[root[j]].ident)
          /\ Fails(ItemPool[root[j]])

(***************************************************************************)
(* C4.  A node's stored features hold every #[cfg] attribute of the module *)
(* declarations its macro invocation lies in and of the invocation itself, *)
(* and those features open every trait method, every free function and the *)
(* Spanned implementation emitted for the node.                            *)
(***************************************************************************)
Opening(i, buffer, keyword) ==
    LET features == lookup[emitted[i].ident].features
    IN  IsPrefix(features \o <<"\n", keyword>>,
                 SubSeq(state[buffer], emitted[i].at[buffer] + 1, Len(state[buffer])))

C4_FeaturePropagation ==
    /\ \A id \in DOMAIN lookup : \A k \in 1..Len(origin[id].attrs) :
          \A j \in 1..Len(origin[id].attrs[k]) :
             origin[id].attrs[k][j].path = "cfg"
             => origin[id].attrs[k][j].text \in Range(lookup[id].features)
    /\ \A i \in 1..Len(emitted) :
          /\ Opening(i, "visit_trait", "fn visit_")
          /\ Opening(i, "visit_mut_trait", "fn visit_")
          /\ Opening(i, "fold_trait", "fn fold_")
          /\ Opening(i, "visit_impl", "pub fn visit_")
          /\ Opening(i, "visit_mut_impl", "pub fn visit_")
          /\ Opening(i, "fold_impl", "pub fn fold_")
          /\ EmitsSpanned(lookup[emitted[i].ident])
             => Opening(i, "spanned_impls", "impl Spanned for ::")

\* Lit, declared under #[cfg] R in mod lit (#[cfg] Q) of mod expr (#[cfg] P),
\* has been emitted
C4_Witness ==
    /\ pc = "done"
    /\ "Lit" \in DOMAIN lookup
    /\ Len(origin["Lit"].attrs) = 3
    /\ lookup["Lit"].features = <<CfgP.text, CfgQ.text, CfgR.text>>
    /\ \E i \in 1..Len(emitted) : emitted[i].ident = "Lit"
(***************************************************************************)
(* C9.  For every node generate has finished, the text it appended to each *)
(* _impl buffer has balanced braces and parentheses, one match arm per     *)
(* variant and one entry per declared field.                               *)
(***************************************************************************)
RECURSIVE SumFields(_)
SumFields(variants) ==
    IF variants = <<>> THEN 0
    ELSE Len(Head(variants).fields) + SumFields(Tail(variants))

NumFields(s) ==
    IF s.body.kind = "Enum" THEN SumFields(s.body.variants)
    ELSE IF s.body.data = "Unit" THEN 0 ELSE Len(s.body.fields)

NumVariants(s) == IF s.body.kind = "Enum" THEN Len(s.body.variants) ELSE 0

WellFormed(i) ==
    LET s == lookup[emitted[i].ident]
    IN  /\ \A buffer \in {"visit_impl", "visit_mut_impl", "fold_impl"} :
             /\ Balanced(Chunk(i, buffer))
             /\ Count(Chunk(i, buffer), {" => "}) = NumVariants(s)
        /\ Count(Chunk(i, "visit_impl"), {";\n"}) = NumFields(s)
        /\ Count(Chunk(i, "visit_mut_impl"), {";\n"}) = NumFields(s)
        /\ Count(Chunk(i, "fold_impl"), {",\n"}) = NumFields(s)

C9_WellFormedOutput ==
    \A i \in 1..Len(emitted) : ~emitted[i].panic => WellFormed(i)

\* the same, but for the unions with a tuple variant of no fields
HasEmptyTuple(s) ==
    /\ s.body.kind = "Enum"
    /\ \E i \in 1..Len(s.body.variants) :
          s.body.variants[i].data = "Tuple" /\ s.body.variants[i].fields = <<>>

C9_WellFormedButEmptyTuple ==
    \A i \in 1..Len(emitted) :
       (~emitted[i].panic /\ ~HasEmptyTuple(lookup[emitted[i].ident])) => WellFormed(i)

(***************************************************************************)
(* C10.  Once emission is over, spanned_impls holds one implementation for *)
(* each node of the table but Span, and none for Span.                     *)
(***************************************************************************)
SpannedImpls(id) ==
    Cardinality({i \in 1..Len(state.spanned_impls) - 1 :
                    /\ state.spanned_impls[i] = "impl Spanned for ::"
                    /\ state.spanned_impls[i + 1] = id})

C10_SpannedForAllButSpan ==
    Writing => \A id \in DOMAIN lookup :
                  SpannedImpls(id) = IF id = "Span" THEN 0 ELSE 1

\* the same, with the test the code makes: on the snake-case name
C10_SpannedForAllButSnakeSpan ==
    Writing => \A id \in DOMAIN lookup :
                  SpannedImpls(id) = IF under_name(id) = "span" THEN 0 ELSE 1

(***************************************************************************)
(* examples/unstable: Parser, eval and demo.  The input of demo is a       *)
(* sequence of tokens: a parenthesised tuple (with the number of its       *)
(* elements), `=`, or some other token.  The span of a token is its place  *)
(* in the input; Span::def_site() is place 0.                              *)
(***************************************************************************)
\* how many elements a tuple of the input holds at most
MaxLen == 3

\* how many tokens the input holds at most
MaxTokens == 4

TupleTok(n) == [tok |-> "tuple", len |-> n]

EqTok == [tok |-> "=", len |-> 0]

OtherTok == [tok |-> "other", len |-> 0]

Tokens == {TupleTok(n) : n \in 0..MaxLen} \cup {EqTok, OtherTok}

DEF_SITE == 0

\* Parser::current_span
current_span(inp, at) == IF at <= Len(inp) THEN at ELSE DEF_SITE

\* Span::error: a Diagnostic without notes
error(span, message) == [span |-> span, message |-> message, notes |-> <<>>]

\* Diagnostic::span_note
span_note(diag, span, message) ==
    [diag EXCEPT !.notes = Append(@, [span |-> span, message |-> message])]

Ok(val) == [ok |-> TRUE, val |-> val, diag |-> error(DEF_SITE, <<>>)]

Err(diag) == [ok |-> FALSE, val |-> <<>>, diag |-> diag]

\* Parser::parse::<T> with the cursor at token `at`: the value (its length
\* and span) and the cursor behind it, or ParseError's "failed to parse"
parse(inp, at, what) ==
    IF at <= Len(inp) /\ inp[at].tok = what
    THEN Ok([len |-> inp[at].len, span |-> at, next |-> at + 1])
    ELSE Err(error(current_span(inp, at), <<"failed to parse">>))

\* Parser::eof
eof(inp, at) ==
    IF at <= Len(inp)
    THEN Err(error(current_span(inp, at), <<"trailing characters; expected eof">>))
    ELSE Ok(<<>>)

\* as Mismatch, were the note put where the error is
MismatchNotedAtError(a, b) ==
    span_note(error(b.span, <<"expected ", a.len, " element(s), got ", b.len>>),
              b.span, <<"because of this">>)

\* the Diagnostic eval makes of two tuples of different lengths
Mismatch(a, b) ==
    span_note(error(b.span, <<"expected ", a.len, " element(s), got ", b.len>>),
              a.span, <<"because of this">>)

ALL_GOOD == <<"println!(\"All good!\")">>

\* eval, from the comparison on
Compare(a, b) == IF a.len # b.len THEN Err(Mismatch(a, b)) ELSE Ok(ALL_GOOD)

\* eval, from parser.eof()? on
EvalEof(inp, a, b) ==
    IF eof(inp, b.next).ok THEN Compare(a, b) ELSE Err(eof(inp, b.next).diag)

\* eval, from the second parse::<ExprTuple>()? on
EvalB(inp, a, b) == IF b.ok THEN EvalEof(inp, a, b.val) ELSE Err(b.diag)

\* eval, from parse::<token::Eq>()? on
EvalEq(inp, a, eq) ==
    IF eq.ok THEN EvalB(inp, a, parse(inp, eq.val.next, "tuple")) ELSE Err(eq.diag)

\* eval, from the first parse::<ExprTuple>()? on
EvalA(inp, a) ==
    IF a.ok THEN EvalEq(inp, a.val, parse(inp, a.val.next, "=")) ELSE Err(a.diag)

eval(inp) == EvalA(inp, parse(inp, 1, "tuple"))

\* demo: what it emits and what it returns
demo(res) ==
    IF res.ok THEN [done |-> TRUE, emitted |-> <<>>, returned |-> res.val]
    ELSE [done |-> TRUE, emitted |-> <<res.diag>>, returned |-> <<>>]

NotCalled == [done |-> FALSE, emitted |-> <<>>, returned |-> <<>>]

Demo ==
    /\ ~output.done
    /\ output' = demo(eval(input))
    /\ UNCHANGED <<mainVars, visitVars, detVars, spanVars, foldVars, input>>

EvalInit ==
    /\ input \in UNION {[1..n -> Tokens] : n \in 0..MaxTokens}
    /\ output = NotCalled
    /\ root = NotStarted /\ pc = NotStarted /\ stack = NotStarted
    /\ lookup = NotStarted /\ cursor = NotStarted /\ state = NotStarted
    /\ disk = NotStarted /\ origin = NotStarted /\ emitted = NotStarted
    /\ VisitIdle /\ DetIdle /\ SpanIdle /\ FoldIdle

EvalNext == Demo

SpecEval == EvalInit /\ [][EvalNext]_vars

\* the input is two groups joined by the equality marker, and nothing else
TwoGroups ==
    /\ Len(input) = 3
    /\ input[1].tok = "tuple" /\ input[2].tok = "=" /\ input[3].tok = "tuple"

\* demo has failed with the message for lengths a and b and the note at
\* token `at`
Rejected(a, b, at) ==
    /\ output.returned = <<>>
    /\ Len(output.emitted) = 1
    /\ output.emitted[1].message = <<"expected ", a, " element(s), got ", b>>
    /\ Len(output.emitted[1].notes) = 1
    /\ output.emitted[1].notes[1].span = at

Accepted == output.returned = ALL_GOOD /\ output.emitted = <<>>

(***************************************************************************)
(* C8 as stated.  For two groups of different lengths a and b demo fails   *)
(* with "expected a element(s), got b" and a note at the shorter group;    *)
(* for equal lengths it succeeds.                                          *)
(***************************************************************************)
C8_NoteAtShorterGroup ==
    (output.done /\ TwoGroups) =>
        IF input[1].len # input[3].len
        THEN Rejected(input[1].len, input[3].len,
                      IF input[1].len < input[3].len THEN 1 ELSE 3)
        ELSE Accepted

(***************************************************************************)
(* C8, amended.  For two groups of different lengths a and b demo fails    *)
(* with "expected a element(s), got b", reported at the second group, and  *)
(* a note at the first group, whichever is the shorter; for equal lengths  *)
(* it succeeds.                                                            *)
(***************************************************************************)
C8_NoteAtFirstGroup ==
    (output.done /\ TwoGroups) =>
        IF input[1].len # input[3].len
        THEN Rejected(input[1].len, input[3].len, 1) /\ output.emitted[1].span = 3
        ELSE Accepted

C8_Witness ==
    /\ output.done
    /\ input = <<TupleTok(3), EqTok, TupleTok(2)>>
    /\ Rejected(3, 2, 1)

(***************************************************************************)
(* The boilerplate of spanned.rs: SpanVisitor.  A span is a range of a     *)
(* file; an Option<Span> is the empty sequence or the sequence of the one  *)
(* span.  proc_macro's Span::join gives the span that encloses both, and   *)
(* None for spans of different files.                                      *)
(***************************************************************************)
\* how many position markers a node holds at most
MaxMarkers == 3

\* the last position of a file
MaxPos == 1

SpanFiles == {"a.rs", "b.rs"}

Spans ==
    {[file |-> f, lo |-> lo, hi |-> hi] :
        f \in SpanFiles, lo \in 0..MaxPos, hi \in 0..MaxPos} \ 
    {[file |-> f, lo |-> lo, hi |-> hi] :
        f \in SpanFiles, lo \in 1..MaxPos, hi \in 0..(MaxPos - 1)}

Absent == <<>>

Present(sp) == <<sp>>

Min(a, b) == IF a <= b THEN a ELSE b

Max(a, b) == IF a >= b THEN a ELSE b

join(s, other) ==
    IF s.file = other.file
    THEN Present([file |-> s.file, lo |-> Min(s.lo, other.lo),
                  hi |-> Max(s.hi, other.hi)])
    ELSE Absent

\* self.span.map_or(Some(sp.into_inner()), |s| s.join(sp.into_inner()))
map_or_join(span, sp) == IF span = Absent THEN Present(sp) ELSE join(span[1], sp)

\* SpanVisitor::default(), with (history) how many markers it has visited
DefaultVisitor == [span |-> Absent, seen |-> 0]

\* Visitor::visit_span of SpanVisitor, on the next marker of the node
VisitSpan ==
    /\ visitor.seen < Len(markers)
    /\ visitor' = [span |-> map_or_join(visitor.span, markers[visitor.seen + 1]),
                   seen |-> visitor.seen + 1]
    /\ UNCHANGED <<mainVars, visitVars, detVars, evalVars, foldVars, markers>>

SpanInit ==
    /\ markers \in UNION {[1..n -> Spans] : n \in 0..MaxMarkers}
    /\ visitor = DefaultVisitor
    /\ root = NotStarted /\ pc = NotStarted /\ stack = NotStarted
    /\ lookup = NotStarted /\ cursor = NotStarted /\ state = NotStarted
    /\ disk = NotStarted /\ origin = NotStarted /\ emitted = NotStarted
    /\ VisitIdle /\ DetIdle /\ EvalIdle /\ FoldIdle

SpanNext == VisitSpan

SpecSpan == SpanInit /\ [][SpanNext]_vars

Encloses(s, m) == s.file = m.file /\ s.lo <= m.lo /\ m.hi <= s.hi

EnclosesVisited ==
    /\ visitor.span # Absent
    /\ \A i \in 1..visitor.seen : Encloses(visitor.span[1], markers[i])

(***************************************************************************)
(* C7.  After the visitor has visited N >= 1 markers its aggregate is      *)
(* present and encloses all N of them; after none it is absent.            *)
(***************************************************************************)
C7_AggregateEnclosesAll ==
    IF visitor.seen = 0 THEN visitor.span = Absent ELSE EnclosesVisited

\* the same, for the nodes whose markers are all of one file
C7_AggregateEnclosesAllOfOneFile ==
    (\A i, j \in 1..visitor.seen : markers[i].file = markers[j].file)
        => C7_AggregateEnclosesAll

\* a marker is lost: two markers of different files, then a third
C7_MarkerLost ==
    /\ visitor.seen = 3
    /\ markers[1].file # markers[2].file
    /\ visitor.span = Present(markers[3])

(***************************************************************************)
(* codegen::visit on its own: one field type, one lookup table, and one    *)
(* of the calls generate makes for a field.                                *)
(***************************************************************************)
\* how many segments the chain of a field type holds at most
MaxDepth == 3

Wrappers == {"Box", "Vec", "Delimited", "Option"}

Segments == Wrappers \cup {"Expr", "Abi"}

\* the types of a field: chains of segments, the last of which may be no
\* path (as a type) or no type (as an argument)
FieldTypes ==
    {c \in UNION {[1..n -> Segments \cup {NOT_A_PATH, NOT_A_TYPE}] : n \in 1..MaxDepth} :
        /\ c[1] # NOT_A_TYPE
        /\ \A i \in 1..(Len(c) - 1) : c[i] \in Segments}

\* the names a table is drawn from
TableNames == {"Expr", "Box", "Option"}

\* a lookup table with these names
TableOf(names) ==
    [id \in names |-> AstItem(id, BodyStruct("Unit", <<>>), <<>>, FALSE)]

Kinds == {"Visit", "VisitMut", "Fold"}

\* the operands generate calls visit with: a field of _i, or the binding of
\* a tuple variant (owned in a fold, borrowed otherwise)
Operands(kind) ==
    {Owned(<<"_i", ".", Decimal(0)>>),
     IF kind = "Fold" THEN Owned(Binding(0)) ELSE Borrowed(Binding(0))}

NotVisited ==
    [done |-> FALSE, kind |-> "Visit", name |-> Owned(<<>>),
     res |-> [panic |-> FALSE, text |-> <<>>]]

VisitField ==
    /\ ~visited.done
    /\ \E kind \in Kinds : \E name \in Operands(kind) :
          visited' = [done |-> TRUE, kind |-> kind, name |-> name,
                      res |-> visit(fieldTy, TableOf(table), kind, name)]
    /\ UNCHANGED <<mainVars, detVars, evalVars, spanVars, foldVars, fieldTy, table>>

VisitInit ==
    /\ fieldTy \in FieldTypes
    /\ table \in SUBSET TableNames
    /\ visited = NotVisited
    /\ root = NotStarted /\ pc = NotStarted /\ stack = NotStarted
    /\ lookup = NotStarted /\ cursor = NotStarted /\ state = NotStarted
    /\ disk = NotStarted /\ origin = NotStarted /\ emitted = NotStarted
    /\ DetIdle /\ EvalIdle /\ SpanIdle /\ FoldIdle

VisitNext == VisitField

SpecVisit == VisitInit /\ [][VisitNext]_vars

\* the strategies of the specification, on a chain c and the names T of
\* the table
HasArg(c) == Len(c) > 1 /\ c[2] \notin {NOT_A_TYPE, NOT_A_PATH}

Direct(c, T) == Head(c) \in T

Indirection(c, T) == Head(c) = "Box" /\ HasArg(c) /\ Direct(Tail(c), T)

SequenceOf(c, T) ==
    /\ Head(c) \in {"Vec", "Delimited"}
    /\ HasArg(c)
    /\ (Direct(Tail(c), T) \/ Indirection(Tail(c), T))

Optional(c, T) ==
    /\ Head(c) = "Option"
    /\ HasArg(c)
    /\ (Direct(Tail(c), T) \/ Indirection(Tail(c), T) \/ SequenceOf(Tail(c), T))

NoStrategy(c, T) ==
    ~(Direct(c, T) \/ Indirection(c, T) \/ SequenceOf(c, T) \/ Optional(c, T))

\* every wrapper segment of the chain has a type as its first argument
ArgsPresent(c) ==
    \A i \in 1..Len(c) :
       c[i] \in Wrappers => (i < Len(c) /\ c[i + 1] # NOT_A_TYPE)

\* the call has not failed and has given the skip marker (read, mutate) or
\* the operand itself (transform)
Degraded ==
    /\ ~visited.res.panic
    /\ visited.res.text = IF visited.kind = "Fold" THEN visited.name.tokens
                          ELSE <<"// Skipped field ">> \o visited.name.tokens

C5_MissingArgumentPanics ==
    /\ visited.done
    /\ fieldTy = <<"Box">>
    /\ table = {"Expr"}
    /\ visited.res.panic

(***************************************************************************)
(* Two runs of main over the same declarations.  load_file is given as the *)
(* insertions it makes, in any order; the terminals and the generate loop  *)
(* are main's.  Each run keeps (history) the order of its insertions and   *)
(* of its generate calls.                                                  *)
(***************************************************************************)
\* how many declarations the two runs discover at most
MaxDecls == 3

\* the declarations the runs are drawn from, as load_file finds them
DeclPool ==
    << [ast_struct_inner(NamedItem) EXCEPT !.features = <<CfgQ.text>>],
       ast_struct_inner(StructDecl("Item", TRUE, "Unit", <<>>)),
       AstEnum(OpEnum)[1][1],
       AstEnum(EnumDecl("Vis", <<Variant("Pub", "Unit", <<>>),
                                 Variant("In", "Struct",
                                         <<Field("path", <<"Ident">>)>>)>>))[1][1] >>

RunStart(todo) ==
    [pc |-> "load", todo |-> todo, lookup |-> EmptyLookup, cursor |-> 0,
     state |-> EmptyState, inserted |-> <<>>, order |-> <<>>]

\* load_file inserts one more of the declarations
DetDiscover(r) ==
    /\ runs[r].pc = "load"
    /\ \E d \in runs[r].todo :
          runs' = [runs EXCEPT
                     ![r].todo = @ \ {d},
                     ![r].lookup = InsertFound(@, <<DeclPool[d]>>, <<>>),
                     ![r].inserted = Append(@, d)]
    /\ UNCHANGED <<mainVars, visitVars, evalVars, spanVars, foldVars, decls>>

\* `for &tt in TERMINAL_TYPES`, from terminal idx on
RECURSIVE InsertTerminals(_, _)
InsertTerminals(map, idx) ==
    IF idx > Len(TERMINAL_TYPES) THEN map
    ELSE InsertTerminals(Insert(map, TERMINAL_TYPES[idx], Terminal(TERMINAL_TYPES[idx])),
                         idx + 1)

DetTerminals(r) ==
    /\ runs[r].pc = "load" /\ runs[r].todo = {}
    /\ runs' = [runs EXCEPT ![r].lookup = InsertTerminals(@, 1),
                            ![r].pc = "generate"]
    /\ UNCHANGED <<mainVars, visitVars, evalVars, spanVars, foldVars, decls>>

\* one turn of `for s in lookup.values()` of run r: generate has left res
DetGenerated(r, s, res) ==
    runs' = [runs EXCEPT
               ![r].state = res.state,
               ![r].order = Append(@, s.ident),
               ![r].pc = IF res.panic THEN "generate_panicked"
                         ELSE IF runs[r].cursor + 1 = Cardinality(DOMAIN runs[r].lookup)
                         THEN "write"
                         ELSE @,
               ![r].cursor = IF res.panic THEN @ ELSE @ + 1]

DetGenerate(r) ==
    /\ runs[r].pc = "generate"
    /\ DetGenerated(r, Values(runs[r].lookup)[runs[r].cursor + 1],
                    generate(runs[r].state, runs[r].lookup,
                             Values(runs[r].lookup)[runs[r].cursor + 1]))
    /\ UNCHANGED <<mainVars, visitVars, evalVars, spanVars, foldVars, decls>>

DetInit ==
    /\ decls \in {D \in SUBSET (1..Len(DeclPool)) : Cardinality(D) <= MaxDecls}
    /\ runs = [r \in 1..2 |-> RunStart(decls)]
    /\ root = NotStarted /\ pc = NotStarted /\ stack = NotStarted
    /\ lookup = NotStarted /\ cursor = NotStarted /\ state = NotStarted
    /\ disk = NotStarted /\ origin = NotStarted /\ emitted = NotStarted
    /\ VisitIdle /\ EvalIdle /\ SpanIdle /\ FoldIdle

DetNext ==
    \E r \in 1..2 :
       \/ DetDiscover(r)
       \/ DetTerminals(r)
       \/ DetGenerate(r)

SpecDet == DetInit /\ [][DetNext]_vars

\* both runs are through with emission
BothEmitted == \A r \in 1..2 : runs[r].pc \in {"write", "generate_panicked"}

\* every generate call so far was for a greater name than the one before
InNameOrder(order) ==
    \A i, j \in 1..Len(order) : i < j => Rank(order[i]) < Rank(order[j])

NamesDistinct ==
    \A d, e \in decls : DeclPool[d].ident = DeclPool[e].ident => d = e

(***************************************************************************)
(* C1 as stated.  Two runs over the same declarations, whatever the order  *)
(* of their insertions, emit in the order of the names and leave the same  *)
(* buffers.                                                                *)
(***************************************************************************)
C1_Deterministic ==
    /\ \A r \in 1..2 : InNameOrder(runs[r].order)
    /\ BothEmitted => runs[1].state = runs[2].state

(***************************************************************************)
(* C1, amended.  The same for declarations of which no two share a name.   *)
(***************************************************************************)
C1_DeterministicForDistinctNames ==
    /\ \A r \in 1..2 : InNameOrder(runs[r].order)
    /\ (BothEmitted /\ NamesDistinct) => runs[1].state = runs[2].state

C1_Witness ==
    /\ BothEmitted /\ NamesDistinct
    /\ Cardinality(decls) = 3
    /\ runs[1].inserted[1] # runs[2].inserted[1]
    /\ runs[1].state = runs[2].state
    /\ Len(runs[1].order) > 3

\* two declarations of one name, inserted in the two orders
C1_LastInsertedWins ==
    /\ BothEmitted
    /\ decls = {1, 2}
    /\ runs[1].inserted = <<1, 2>> /\ runs[2].inserted = <<2, 1>>
    /\ runs[1].state # runs[2].state

(***************************************************************************)
(* The emitted fold.rs at work.  The values of the schema's types:         *)
(*   a node      [kind "node", node, variant, fields, data]                *)
(*   Box<T>      [kind "box", of]                                          *)
(*   Vec<T>      [kind "vec", items]                                       *)
(*   Delimited   [kind "delimited", items], each item with its separator   *)
(*   Option<T>   [kind "option", items], no item or one                    *)
(*   a type the table does not know: [kind "opaque", data]                 *)
(* The fields of a node are in the order of their declaration; `data` is   *)
(* what a terminal holds.                                                  *)
(***************************************************************************)
\* how deep nodes nest in a value
MaxNest == 4

\* how many elements a Vec or a Delimited of a value holds at most
MaxElems == 2

NodeV(id, variant, fields, data) ==
    [kind |-> "node", node |-> id, variant |-> variant, fields |-> fields,
     data |-> data]

BoxV(of) == [kind |-> "box", of |-> of]

VecV(items) == [kind |-> "vec", items |-> items]

DelimitedV(items) == [kind |-> "delimited", items |-> items]

OptionV(items) == [kind |-> "option", items |-> items]

OpaqueV == [kind |-> "opaque", data |-> "abi"]

\* an element of a Delimited with the separator behind it, if any
Element(item, sep) == [item |-> item, sep |-> sep]

\* the Delimiteds of at most n of the items S: a separator behind every
\* element but the last, behind which there may be one
Delimiteds(S, n) ==
    {DelimitedV([k \in 1..Len(q) |->
                   Element(q[k], IF k < Len(q) \/ trailing THEN <<",">> ELSE <<>>)]) :
        q \in UNION {[1..m -> S] : m \in 0..n}, trailing \in BOOLEAN}

\* the sequences with one element of each of the sets
RECURSIVE Products(_)
Products(sets) ==
    IF sets = <<>> THEN {<<>>}
    ELSE {<<h>> \o r : h \in Head(sets), r \in Products(Tail(sets))}

RECURSIVE NodeValues(_, _, _)
RECURSIVE TypeValues(_, _, _)
\* the values of the type with chain c in which nodes nest at most d deep
TypeValues(lkp, c, d) ==
    IF c = <<>> THEN {OpaqueV}
    ELSE IF Head(c) \in DOMAIN lkp THEN NodeValues(lkp, Head(c), d)
    ELSE CASE Head(c) = "Box" -> {BoxV(v) : v \in TypeValues(lkp, Tail(c), d)}
           [] Head(c) = "Vec" ->
                {VecV(q) : q \in UNION {[1..m -> TypeValues(lkp, Tail(c), d)] :
                                           m \in 0..MaxElems}}
           [] Head(c) = "Delimited" ->
                Delimiteds(TypeValues(lkp, Tail(c), d), MaxElems)
           [] Head(c) = "Option" ->
                {OptionV(<<>>)} \cup {OptionV(<<v>>) : v \in TypeValues(lkp, Tail(c), d)}
           [] OTHER -> {OpaqueV}

\* the values of node id in which nodes nest at most d deep
NodeValues(lkp, id, d) ==
    IF d = 0 THEN {}
    ELSE IF lkp[id].body.kind = "Struct"
    THEN {NodeV(id, "", fs, data) :
            fs \in Products([k \in 1..Len(lkp[id].body.fields) |->
                               TypeValues(lkp, lkp[id].body.fields[k].ty, d - 1)]),
            data \in IF id \in Range(TERMINAL_TYPES) THEN {"a", "b"} ELSE {""}}
    ELSE UNION {{NodeV(id, lkp[id].body.variants[n].ident, fs, "") :
                   fs \in Products([k \in 1..Len(lkp[id].body.variants[n].fields) |->
                                      TypeValues(lkp,
                                                 lkp[id].body.variants[n].fields[k].ty,
                                                 d - 1)])} :
                  n \in 1..Len(lkp[id].body.variants)}

\* the table the values are of: Expr with ExprBox and ExprParen, Lit, Item,
\* Op and Mode, the records without fields Nothing, Eof {} and Nil(), and
\* the terminals
FoldLookup ==
    InsertTerminals(
        InsertFound(EmptyLookup,
                    AstEnumOfStructs(ExprEos)[1]
                    \o AstStruct(TupleLit)[1] \o AstStruct(NamedItem)[1]
                    \o AstEnum(OpEnum)[1]
                    \o AstEnum(EnumDecl("Mode", <<Variant("Plain", "Tuple", <<>>),
                                                  Variant("Raw", "Unit", <<>>)>>))[1]
                    \o AstStruct(StructDecl("Nothing", FALSE, "Unit", <<>>))[1]
                    \o AstStruct(StructDecl("Eof", FALSE, "Struct", <<>>))[1]
                    \o AstStruct(StructDecl("Nil", FALSE, "Tuple", <<>>))[1],
                    <<>>),
        1)

FoldInputs == UNION {NodeValues(FoldLookup, id, MaxNest) : id \in DOMAIN FoldLookup}

(***************************************************************************)
(* The text of a function of fold_impl, read as the Rust it is.  Line ends *)
(* are dropped; what is left is read by position.  A reader gives the      *)
(* position behind what it has read, and 0 when the text is not of its     *)
(* form.                                                                   *)
(***************************************************************************)
Lex(text) == SelectSeq(text, LAMBDA tok : tok # "\n")

Tok(t, pos) == IF 0 < pos /\ pos <= Len(t) THEN t[pos] ELSE "<eof>"

Eat(t, pos, tok) == IF Tok(t, pos) = tok THEN pos + 1 ELSE 0

\* the names of the nodes and of their variants
Names(lkp) ==
    DOMAIN lkp \cup
    UNION {{lkp[id].body.variants[n].ident : n \in 1..Len(lkp[id].body.variants)} :
             id \in DOMAIN lkp}

Digits == {Decimal(d) : d \in 0..9}

RECURSIVE ExprEnd(_, _, _)
RECURSIVE NamedEnd(_, _, _)
RECURSIVE ListEnd(_, _, _)
\* `|it| { expr }`
ClosureEnd(lkp, t, pos) ==
    Eat(t, ExprEnd(lkp, t, Eat(t, Eat(t, pos, "|it|"), "{")), "}")

\* an expression of the forms generate and visit emit in a fold
ExprEnd(lkp, t, pos) ==
    CASE Tok(t, pos) \in {"_visitor.fold_"} ->
           Eat(t, ExprEnd(lkp, t, Eat(t, pos + 2, "(")), ")")
      [] Tok(t, pos) \in {"Box::new", "full!"} ->
           Eat(t, ExprEnd(lkp, t, Eat(t, pos + 1, "(")), ")")
      [] Tok(t, pos) = "FoldHelper::lift" ->
           Eat(t, ClosureEnd(lkp, t, Eat(t, ExprEnd(lkp, t, Eat(t, pos + 1, "(")), ", ")),
               ")")
      [] Tok(t, pos) = "(" ->
           Eat(t, ClosureEnd(lkp, t,
                             Eat(t, Eat(t, Eat(t, ExprEnd(lkp, t, pos + 1), ")"), ".map"),
                                 "(")),
               ")")
      [] Tok(t, pos) = "*" -> ExprEnd(lkp, t, pos + 1)
      [] Tok(t, pos) = "it" -> pos + 1
      [] Tok(t, pos) = "_binding_" -> IF Tok(t, pos + 1) \in Digits THEN pos + 2 ELSE 0
      [] Tok(t, pos) = "_i" -> IF Tok(t, pos + 1) = "." THEN pos + 3 ELSE pos + 1
      [] Tok(t, pos) \in Names(lkp) ->
           IF Tok(t, pos + 1) = "{" THEN Eat(t, NamedEnd(lkp, t, pos + 2), "}")
           ELSE IF Tok(t, pos + 1) = "(" THEN Eat(t, ListEnd(lkp, t, pos + 2), ")")
           ELSE pos + 1
      [] OTHER -> 0

\* `name: expr,` and so on, up to the closing brace
NamedEnd(lkp, t, pos) ==
    IF Tok(t, pos + 1) # ": " THEN pos
    ELSE NamedEnd(lkp, t, Eat(t, ExprEnd(lkp, t, pos + 2), ",\n"))

\* `expr,` and so on, up to the closing parenthesis
ListEnd(lkp, t, pos) ==
    IF pos = 0 \/ Tok(t, pos) = ")" THEN pos
    ELSE ListEnd(lkp, t, Eat(t, ExprEnd(lkp, t, pos), ",\n"))

\* `_binding_0, ` and so on, up to the closing parenthesis
RECURSIVE BindingsEnd(_, _)
BindingsEnd(t, pos) ==
    IF Tok(t, pos) # "_binding_" THEN pos
    ELSE BindingsEnd(t, Eat(t, pos + 2, ", "))

\* the pattern of an arm: `Variant` or `Variant(_binding_0, ..)`
PatternEnd(t, pos) ==
    IF Tok(t, pos + 1) = "(" THEN Eat(t, BindingsEnd(t, pos + 2), ")") ELSE pos + 1

\* `pattern => { expr }`
ArmEnd(lkp, t, pos) ==
    IF Tok(t, pos) \notin Names(lkp) THEN 0
    ELSE Eat(t, ExprEnd(lkp, t, Eat(t, Eat(t, PatternEnd(t, pos), " => "), "{")), "}")

\* the arms of a match, up to its closing brace
RECURSIVE ArmsEnd(_, _, _)
ArmsEnd(lkp, t, pos) ==
    IF pos = 0 \/ Tok(t, pos) = "}" THEN pos
    ELSE ArmsEnd(lkp, t, ArmEnd(lkp, t, pos))

\* the body of a function: `use ::Name::*; match _i { arms }` or an
\* expression
FnBodyEnd(lkp, t, pos) ==
    IF Tok(t, pos) = "use ::"
    THEN Eat(t, ArmsEnd(lkp, t, Eat(t, Eat(t, pos + 3, "match _i"), "{")), "}")
    ELSE ExprEnd(lkp, t, pos)

\* where the body of node s's function starts in its text: behind the
\* attributes and `pub fn fold_x<V: Folder + ?Sized>(.., _i: T) -> T {`
FnBodyStart(s) == Len(s.features) + 11

\* the text t is the whole function of node s
Compiles(lkp, t, s) ==
    /\ Tok(t, Len(s.features) + 1) = "pub fn fold_"
    /\ Tok(t, FnBodyStart(s) - 1) = "{"
    /\ Eat(t, FnBodyEnd(lkp, t, FnBodyStart(s)), "}") = Len(t) + 1

(***************************************************************************)
(* What the text computes.  Bad is what a text that does not compile, or   *)
(* an operation on a value of the wrong type, gives.  An environment holds *)
(* _i, the `it` of the innermost closure, and the bindings of the arm.     *)
(***************************************************************************)
Bad == [kind |-> "bad"]

\* unreachable!()
UNREACHABLE == [kind |-> "unreachable"]

\* the macro full! of the emitted files: its argument with feature "full",
\* unreachable!() without
full_macro(enabled, e) == IF enabled THEN e ELSE UNREACHABLE

Env(i, it, bindings) == [i |-> i, it |-> it, bindings |-> bindings]

\* v unless part is Bad
Unless(part, v) == IF part = Bad THEN Bad ELSE v

\* v unless one of the elements of q is Bad
UnlessAny(q, v) == IF \E k \in 1..Len(q) : q[k] = Bad THEN Bad ELSE v

\* Vec's FoldHelper::lift: self.into_iter().map(f).collect()
lift_Vec(self, f) == VecV([k \in 1..Len(self.items) |-> f[self.items[k]]])

\* Element::into_tuple: the item and the separator behind it
into_tuple(elem) == <<elem.item, elem.sep>>

\* Delimited's From<Vec<(T, Option<U>)>>
from_tuples(tuples) ==
    DelimitedV([k \in 1..Len(tuples) |-> Element(tuples[k][1], tuples[k][2])])

\* Delimited's FoldHelper::lift
lift_Delimited(self, f) ==
    from_tuples([k \in 1..Len(self.items) |->
                   <<f[into_tuple(self.items[k])[1]], into_tuple(self.items[k])[2]>>])

\* Option::map
map(self, f) == OptionV([k \in 1..Len(self.items) |-> f[self.items[k]]])

\* the container made of self by one of the three, unless f gives Bad
Lifted(self, f, made) ==
    IF \E k \in 1..Len(self.items) :
          f[IF self.kind = "delimited" THEN self.items[k].item ELSE self.items[k]] = Bad
    THEN Bad
    ELSE made

\* `_i.name` or `_i.0`: the field of a struct's value
FieldOf(lkp, v, label) ==
    IF v.kind # "node" \/ lkp[v.node].body.kind # "Struct" THEN Bad
    ELSE IF \E k \in 1..Len(v.fields) :
               label = IF lkp[v.node].body.data = "Struct"
                       THEN lkp[v.node].body.fields[k].ident ELSE Decimal(k - 1)
    THEN v.fields[CHOOSE k \in 1..Len(v.fields) :
                     label = IF lkp[v.node].body.data = "Struct"
                             THEN lkp[v.node].body.fields[k].ident ELSE Decimal(k - 1)]
    ELSE Bad

\* `Name { name: expr, .. }`: a struct of named fields, each named once
StructLit(lkp, name, named) ==
    IF /\ name \in DOMAIN lkp
       /\ lkp[name].body.kind = "Struct" /\ lkp[name].body.data = "Struct"
       /\ Len(named) = Len(lkp[name].body.fields)
       /\ \A k \in 1..Len(named) :
             \E n \in 1..Len(named) : named[n].label = lkp[name].body.fields[k].ident
    THEN UnlessAny([k \in 1..Len(named) |-> named[k].val],
                NodeV(name, "",
                      [k \in 1..Len(named) |->
                         named[CHOOSE n \in 1..Len(named) :
                                  named[n].label = lkp[name].body.fields[k].ident].val],
                      ""))
    ELSE Bad

\* variant `name` of the enum `scope` (whose variants `use ::scope::*`
\* brings into the function) has this shape and this many fields
IsVariant(lkp, scope, name, data, arity) ==
    /\ lkp[scope].body.kind = "Enum"
    /\ \E n \in 1..Len(lkp[scope].body.variants) :
          /\ lkp[scope].body.variants[n].ident = name
          /\ lkp[scope].body.variants[n].data = data
          /\ Len(lkp[scope].body.variants[n].fields) = arity

\* `Name(expr, ..)`: a tuple variant of the enum in scope, or a tuple struct
TupleCons(lkp, scope, name, vals) ==
    IF IsVariant(lkp, scope, name, "Tuple", Len(vals))
    THEN UnlessAny(vals, NodeV(scope, name, vals, ""))
    ELSE IF /\ name \in DOMAIN lkp
            /\ lkp[name].body.kind = "Struct" /\ lkp[name].body.data = "Tuple"
            /\ Len(lkp[name].body.fields) = Len(vals)
    THEN UnlessAny(vals, NodeV(name, "", vals, ""))
    ELSE Bad

\* `Name`: a unit variant of the enum in scope
UnitLit(lkp, scope, name) ==
    IF IsVariant(lkp, scope, name, "Unit", 0) THEN NodeV(scope, name, <<>>, "")
    ELSE Bad

Deref(v) == IF v.kind = "box" THEN v.of ELSE Bad

DigitOf(tok) == CHOOSE d \in 0..9 : Decimal(d) = tok

RECURSIVE ExprVal(_, _, _, _)
RECURSIVE NamedVals(_, _, _, _)
RECURSIVE ListVals(_, _, _, _)
RECURSIVE fold_node(_, _)
\* the default method Folder::fold_x of the trait: fold_x(self, i)
Folder_fold(lkp, under, v) ==
    IF v.kind = "node" /\ under_name(v.node) = under THEN fold_node(lkp, v) ELSE Bad

\* the closure `|it| { expr }` with its body at pos, on the items of self
Closure(lkp, t, pos, env, self) ==
    [x \in {IF self.kind = "delimited" THEN self.items[k].item ELSE self.items[k] :
              k \in 1..Len(self.items)} |->
       ExprVal(lkp, t, pos, [env EXCEPT !.it = <<x>>])]

\* FoldHelper::lift(self, closure), the closure's body at pos
LiftVal(lkp, t, pos, env, self) ==
    CASE self.kind = "vec" ->
           Lifted(self, Closure(lkp, t, pos, env, self),
                  lift_Vec(self, Closure(lkp, t, pos, env, self)))
      [] self.kind = "delimited" ->
           Lifted(self, Closure(lkp, t, pos, env, self),
                  lift_Delimited(self, Closure(lkp, t, pos, env, self)))
      [] OTHER -> Bad

\* (self).map(closure), the closure's body at pos
MapVal(lkp, t, pos, env, self) ==
    IF self.kind = "option"
    THEN Lifted(self, Closure(lkp, t, pos, env, self),
                map(self, Closure(lkp, t, pos, env, self)))
    ELSE Bad

\* the value of the expression at pos; full! is the macro of feature "full"
ExprVal(lkp, t, pos, env) ==
    CASE Tok(t, pos) = "_visitor.fold_" ->
           Folder_fold(lkp, Tok(t, pos + 1), ExprVal(lkp, t, pos + 3, env))
      [] Tok(t, pos) = "Box::new" ->
           Unless(ExprVal(lkp, t, pos + 2, env), BoxV(ExprVal(lkp, t, pos + 2, env)))
      [] Tok(t, pos) = "full!" -> full_macro(TRUE, ExprVal(lkp, t, pos + 2, env))
      [] Tok(t, pos) = "FoldHelper::lift" ->
           LiftVal(lkp, t, ExprEnd(lkp, t, pos + 2) + 3, env,
                   ExprVal(lkp, t, pos + 2, env))
      [] Tok(t, pos) = "(" ->
           MapVal(lkp, t, ExprEnd(lkp, t, pos + 1) + 5, env,
                  ExprVal(lkp, t, pos + 1, env))
      [] Tok(t, pos) = "*" -> Deref(ExprVal(lkp, t, pos + 1, env))
      [] Tok(t, pos) = "it" -> IF env.it = <<>> THEN Bad ELSE env.it[1]
      [] Tok(t, pos) = "_binding_" ->
           IF DigitOf(Tok(t, pos + 1)) < Len(env.bindings)
           THEN env.bindings[DigitOf(Tok(t, pos + 1)) + 1] ELSE Bad
      [] Tok(t, pos) = "_i" ->
           IF Tok(t, pos + 1) = "." THEN FieldOf(lkp, env.i, Tok(t, pos + 2))
           ELSE env.i
      [] Tok(t, pos) \in Names(lkp) ->
           IF Tok(t, pos + 1) = "{"
           THEN StructLit(lkp, Tok(t, pos), NamedVals(lkp, t, pos + 2, env))
           ELSE IF Tok(t, pos + 1) = "("
           THEN TupleCons(lkp, env.i.node, Tok(t, pos), ListVals(lkp, t, pos + 2, env))
           ELSE UnitLit(lkp, env.i.node, Tok(t, pos))
      [] OTHER -> Bad

NamedVals(lkp, t, pos, env) ==
    IF Tok(t, pos + 1) # ": " THEN <<>>
    ELSE <<[label |-> Tok(t, pos), val |-> ExprVal(lkp, t, pos + 2, env)]>>
         \o NamedVals(lkp, t, ExprEnd(lkp, t, pos + 2) + 1, env)

ListVals(lkp, t, pos, env) ==
    IF Tok(t, pos) = ")" THEN <<>>
    ELSE <<ExprVal(lkp, t, pos, env)>>
         \o ListVals(lkp, t, ExprEnd(lkp, t, pos) + 1, env)

\* `match _i { arms }` from the arm at pos on: the first arm whose pattern
\* is of v's variant
RECURSIVE MatchVal(_, _, _, _)
MatchVal(lkp, t, pos, v) ==
    IF Tok(t, pos) = "}" THEN Bad
    ELSE IF Tok(t, pos) = v.variant
    THEN ExprVal(lkp, t, PatternEnd(t, pos) + 2, Env(v, <<>>, v.fields))
    ELSE MatchVal(lkp, t, ArmEnd(lkp, t, pos), v)

\* the body of the function, at pos
FnBodyVal(lkp, t, pos, v) ==
    IF Tok(t, pos) = "use ::" THEN MatchVal(lkp, t, pos + 5, v)
    ELSE ExprVal(lkp, t, pos, Env(v, <<>>, <<>>))

\* the function with text t, if it is the whole function of v's node
FnVal(lkp, t, v) ==
    IF Compiles(lkp, t, lkp[v.node]) THEN FnBodyVal(lkp, t, FnBodyStart(lkp[v.node]), v)
    ELSE Bad

\* what generate has left of the call for a node: its function in fold_impl
FnText(res) == IF res.panic THEN <<>> ELSE Lex(res.state.fold_impl)

\* the emitted function fold_x(_visitor, _i) of v's node
fold_node(lkp, v) == FnVal(lkp, FnText(generate(EmptyState, lkp, lkp[v.node])), v)

NotFolded == [done |-> FALSE, val |-> Bad]

\* the default Folder is handed the value
Fold ==
    /\ ~folded.done
    /\ folded' = [done |-> TRUE,
                  val |-> Folder_fold(FoldLookup, under_name(given.node), given)]
    /\ UNCHANGED <<mainVars, visitVars, detVars, evalVars, spanVars, given>>

FoldInit ==
    /\ given \in FoldInputs
    /\ folded = NotFolded
    /\ root = NotStarted /\ pc = NotStarted /\ stack = NotStarted
    /\ lookup = NotStarted /\ cursor = NotStarted /\ state = NotStarted
    /\ disk = NotStarted /\ origin = NotStarted /\ emitted = NotStarted
    /\ VisitIdle /\ DetIdle /\ EvalIdle /\ SpanIdle

FoldNext == Fold

SpecFold == FoldInit /\ [][FoldNext]_vars

(***************************************************************************)
(* C6.  With no method overridden, the transform of a value of any node    *)
(* gives a value equal to it: same containers, same lengths, same elements *)
(* in the same order, the same separators, unresolved fields and absent    *)
(* optional values unchanged.                                              *)
(***************************************************************************)
C6_IdentityFold == folded.done => folded.val = given

\* the same, but for the values of the unions with a tuple variant of no
\* fields
C6_IdentityFoldButEmptyTuple ==
    (folded.done /\ ~HasEmptyTuple(FoldLookup[given.node])) => folded.val = given

\* a node with a Vec, a Delimited with a trailing separator, an Option and
\* an unresolved field in it comes back as it was
C6_ContainersKept ==
    /\ folded.done /\ folded.val = given
    /\ given.node = "Item"
    /\ Len(given.fields[2].items) = 2
    /\ given.fields[4] = OpaqueV
    /\ \E k \in 1..2 :
          /\ given.fields[2].items[k].of.variant = "Lit"
          /\ Len(given.fields[2].items[k].of.fields[1].fields[1].items) = 1
          /\ Len(given.fields[2].items[k].of.fields[1].fields[2].items) = 0

\* the transform of a union with a tuple variant of no fields is no function
C6_EmptyTupleBreaksFold ==
    /\ folded.done /\ folded.val = Bad
    /\ given = NodeV("Mode", "Raw", <<>>, "")

(***************************************************************************)
(* The guard helper full! in the text of main's run.                       *)
(***************************************************************************)
ImplBuffers == {"visit_impl", "visit_mut_impl", "fold_impl"}

\* the fields of a node: of its variants, or its own
RECURSIVE VariantsFields(_)
VariantsFields(variants) ==
    IF variants = <<>> THEN <<>>
    ELSE Head(variants).fields \o VariantsFields(Tail(variants))

AllFields(s) ==
    IF s.body.kind = "Enum" THEN VariantsFields(s.body.variants)
    ELSE IF s.body.data = "Unit" THEN <<>> ELSE s.body.fields

\* the entry a resolved type ends at: the first name of its chain in T
RECURSIVE Target(_, _)
Target(c, T) == IF Head(c) \in T THEN Head(c) ELSE Target(Tail(c), T)

\* the field's type resolves to an entry marked extended_only
RefersToGuarded(field) ==
    /\ ~NoStrategy(field.ty, DOMAIN lookup)
    /\ lookup[Target(field.ty, DOMAIN lookup)].eos_full

GuardedFields(s) ==
    Cardinality({k \in 1..Len(AllFields(s)) : RefersToGuarded(AllFields(s)[k])})

\* the places of the guard helper in a text
Guards(text) == {k \in 1..Len(text) : text[k] = "full!"}

\* the guard helper opens at the start of a field's expression
AtFieldStart(text, k) ==
    /\ 1 < k /\ k < Len(text)
    /\ text[k - 1] \in {"\n", ";\n", ",\n", ": "}
    /\ text[k + 1] = "("

(***************************************************************************)
(* C11 as stated.  The functions of a node have the guard helper in their  *)
(* body exactly if the node is marked extended_only; the helper gives its  *)
(* argument with the feature and the unreachable marker without.           *)
(***************************************************************************)
C11_OwnBodyGuarded ==
    /\ \A i \in 1..Len(emitted) : \A buffer \in ImplBuffers :
          ~emitted[i].panic =>
             (lookup[emitted[i].ident].eos_full <=> Guards(Chunk(i, buffer)) # {})
    /\ full_macro(TRUE, state) = state
    /\ full_macro(FALSE, state) = UNREACHABLE

(***************************************************************************)
(* C11, amended.  The guard helper is around the expression of each field  *)
(* whose type resolves to a node marked extended_only, in the functions of *)
(* the node that holds the field, once per such field and nowhere else;    *)
(* the helper gives its argument with the feature and the unreachable      *)
(* marker without.                                                         *)
(***************************************************************************)
C11_GuardAtReferences ==
    /\ \A i \in 1..Len(emitted) : \A buffer \in ImplBuffers :
          ~emitted[i].panic =>
             /\ Cardinality(Guards(Chunk(i, buffer)))
                  = GuardedFields(lookup[emitted[i].ident])
             /\ \A k \in Guards(Chunk(i, buffer)) : AtFieldStart(Chunk(i, buffer), k)
    /\ full_macro(TRUE, state) = state
    /\ full_macro(FALSE, state) = UNREACHABLE

C11_Witness ==
    /\ pc = "write"
    /\ \E i, j \in 1..Len(emitted) :
          /\ emitted[i].ident = "Expr" /\ ~lookup["Expr"].eos_full
          /\ Cardinality(Guards(Chunk(i, "fold_impl"))) = 1
          /\ emitted[j].ident = "ExprBox" /\ lookup["ExprBox"].eos_full
          /\ Guards(Chunk(j, "fold_impl")) = {}

(***************************************************************************)
(* The declarations of a file in the order load_file comes to them: the    *)
(* items in the order of the file, the file of a module where the module   *)
(* is declared, the items of one macro in the order its parser gives them. *)
(***************************************************************************)
Recorded(found, features) ==
    [i \in 1..Len(found) |-> [found[i] EXCEPT !.features = @ \o features]]

RECURSIVE Traversal(_, _)
Traversal(items, features) ==
    IF items = <<>> THEN <<>>
    ELSE LET item == Head(items)
         IN  (CASE item.item = "Mod" ->
                     IF ~item.content /\ item.ident \notin IGNORED_MODS
                        /\ Loads(item.ident)
                     THEN Traversal(Items(item.ident),
                                    get_features(item.attrs, features))
                     ELSE <<>>
                [] item.item = "Macro" ->
                     IF item.path \in RECOGNIZED /\ Found(item) # <<>>
                     THEN Recorded(Found(item)[1],
                                   get_features(item.attrs, features))
                     ELSE <<>>
                [] OTHER -> <<>>)
             \o Traversal(Tail(items), features)

Named(decl, id) == {k \in 1..Len(decl) : decl[k].ident = id}

LastNamed(decl, id) == decl[CHOOSE k \in Named(decl, id) : \A j \in Named(decl, id) : j <= k]

\* load_file has returned Ok to main and no terminal is inserted yet
Extracted == pc = "terminals" /\ cursor = 0

LastOfEachName(decl) ==
    /\ DOMAIN lookup = {decl[k].ident : k \in 1..Len(decl)}
    /\ \A id \in DOMAIN lookup : lookup[id] = LastNamed(decl, id)

(***************************************************************************)
(* C12.  When extraction has completed, the table holds one entry for each *)
(* name declared, and it is the declaration of that name that comes last   *)
(* in the order of traversal: items in the order of the file, the file of  *)
(* a module where the module is declared, the union of an enum of records  *)
(* before its inline records.                                              *)
(***************************************************************************)
C12_LastDeclarationWins == Extracted => LastOfEachName(Traversal(Items(SYN_CRATE_ROOT), <<>>))

\* a name declared in the file of a module and then, after the module, by
\* the union and by the inline record of one enum of records
C12_Witness ==
    /\ Extracted
    /\ LET decl == Traversal(Items(SYN_CRATE_ROOT), <<>>)
       IN  /\ Cardinality(Named(decl, "Abi")) = 3
           /\ \E i, j, k \in Named(decl, "Abi") :
                 /\ i < j /\ j < k
                 /\ decl[i].body.data = "Unit"
                 /\ decl[j].body.kind = "Enum"
                 /\ decl[k].body.data = "Tuple"
                 /\ lookup["Abi"] = decl[k]

(***************************************************************************)
(* The terminal types.                                                     *)
(***************************************************************************)
\* generate has not been called yet
EmissionStarts == pc = "generate" /\ emitted = <<>>

UnitRecord(s, id) ==
    /\ s.ident = id
    /\ s.body.kind = "Struct" /\ s.body.data = "Unit" /\ s.body.fields = <<>>
    /\ s.features = <<>>
    /\ ~s.eos_full

(***************************************************************************)
(* C13.  No entry of the table is a terminal type's while load_file runs;  *)
(* when emission starts the table holds Ident and Span, each a unit record *)
(* without fields, with empty features and not extended_only, whatever the *)
(* files declared under these names.                                       *)
(***************************************************************************)
C13_TerminalsAfterExtraction ==
    /\ pc \in {"start", "load_file", "load_failed"} \/ Extracted =>
          \A id \in DOMAIN origin : ~origin[id].terminal
    /\ EmissionStarts =>
          \A k \in 1..Len(TERMINAL_TYPES) :
             /\ TERMINAL_TYPES[k] \in DOMAIN lookup
             /\ UnitRecord(lookup[TERMINAL_TYPES[k]], TERMINAL_TYPES[k])
             /\ origin[TERMINAL_TYPES[k]].terminal

\* the files declare a Span with a field and features
C13_Witness ==
    /\ EmissionStarts
    /\ \E k \in 1..Len(Traversal(Items(SYN_CRATE_ROOT), <<>>)) :
          /\ Traversal(Items(SYN_CRATE_ROOT), <<>>)[k].ident = "Span"
          /\ ~UnitRecord(Traversal(Items(SYN_CRATE_ROOT), <<>>)[k], "Span")
    /\ UnitRecord(lookup["Span"], "Span")

(***************************************************************************)
(* The files of ../src/gen while main writes them.                         *)
(***************************************************************************)
\* the first n files of the order have this run's whole document, the
\* files after the next one are as the last run left them
WrittenUpTo(order, n) ==
    /\ \A k \in 1..n : disk[order[k]] = Document(order[k])
    /\ \A k \in (n + 2)..Len(order) : disk[order[k]] = Stale

\* the run has ended at file n + 1: File::create has failed (the file is as
\* it was) or write! has (the file is not whole)
AbortedAt(order, n) ==
    /\ n < Len(order)
    /\ WrittenUpTo(order, n)
    /\ disk[order[n + 1]] \in {Stale, Truncated}
    /\ ~ENABLED Next

\* n files are written and the next one is not opened yet
WritingAt(order, n) ==
    /\ WrittenUpTo(order, n)
    /\ n < Len(order) => disk[order[n + 1]] = Stale

(***************************************************************************)
(* C14.  The files are written whole, in the order fold, visit, visit_mut, *)
(* spanned.  When File::create or write! fails for a file the run ends     *)
(* there: the files before it have the whole document of this run, the     *)
(* files after it are as they were.                                        *)
(***************************************************************************)
C14_WritesInOrderNoRollback ==
    LET order == <<FOLD_SRC, VISIT_SRC, VISIT_MUT_SRC, SPANNED_SRC>>
    IN  /\ pc \notin {"write", "write_panicked", "done"} => WritingAt(order, 0)
        /\ pc = "write" => cursor < Len(order) /\ WritingAt(order, cursor)
        /\ pc = "done" => WritingAt(order, Len(order))
        /\ pc = "write_panicked" => AbortedAt(order, cursor)

\* write! of visit_mut.rs has failed after fold.rs and visit.rs were written
C14_Witness ==
    /\ pc = "write_panicked"
    /\ disk[FOLD_SRC].complete /\ disk[FOLD_SRC].impl # <<>>
    /\ disk[VISIT_SRC].complete /\ disk[VISIT_SRC].impl # <<>>
    /\ disk[VISIT_MUT_SRC] = Truncated
    /\ disk[SPANNED_SRC] = Stale

(***************************************************************************)
(* The modules load_file passes over.                                      *)
(***************************************************************************)
\* the names of the modules declared in the input
ModNames ==
    {ItemPool[k].ident : k \in {i \in 1..Len(ItemPool) : ItemPool[i].item = "Mod"}}

\* load_file passes on to the next item: no file is opened, no entry made
PassesOver ==
    /\ stack' = Continue
    /\ UNCHANGED <<pc, lookup>>

\* load_file is called for the file of the module: it is opened and its
\* items come next, or the run ends with its error
Opens(id) ==
    IF Loads(id)
    THEN /\ Len(stack') = Len(stack) + 1
         /\ stack'[Len(stack')].name = id
         /\ stack'[Len(stack')].idx = 1
    ELSE pc' = "load_failed"

\* what load_file does at a module declaration without content, were S the
\* names it passes over
AtModule(S) ==
    AtItem /\ Item.item = "Mod" /\ ~Item.content =>
       IF Item.ident \in S THEN PassesOver ELSE Opens(Item.ident)

\* the modules of the input that load_file passes over
Skipped == {id \in ModNames : \E name \in IGNORED_MODS : id = name}

(***************************************************************************)
(* C15 as stated.  The names of the modules load_file passes over are two; *)
(* it passes over a module declaration without content exactly if it has   *)
(* one of them, and opens the file of every other one.                     *)
(***************************************************************************)
C15_TwoModulesSkipped == [][Cardinality(Skipped) = 2 /\ AtModule(Skipped)]_vars

(***************************************************************************)
(* C15, amended.  load_file passes over a module declaration without       *)
(* content exactly if it is named fold, visit or visit_mut: no file is     *)
(* opened for it and no entry is made; for every other one it opens the    *)
(* file of that name, and the run ends if the file does not load.          *)
(***************************************************************************)
C15_ThreeModulesSkipped == [][AtModule({"fold", "visit", "visit_mut"})]_vars

\* fold.rs is there and declares Nothing: load_file is past `mod fold` and
\* `mod visit_mut`, and has made no entry
C15_Witness ==
    /\ Extracted
    /\ Items(SYN_CRATE_ROOT)
         = <<ItemMod("fold", <<>>, FALSE), ItemMod("visit_mut", <<>>, FALSE)>>
    /\ Exists("fold") /\ ~Exists("visit_mut")
    /\ DOMAIN lookup = {}

(***************************************************************************)
(* The strategies to be read off the text visit returns: the loop of a     *)
(* sequence, the `if let` or map of an option, the Box::new of a fold, and *)
(* the function of the visitor that is called in the end.                  *)
(***************************************************************************)
RECURSIVE Shape(_)
Shape(text) ==
    IF text = <<>> THEN <<>>
    ELSE (CASE Head(text) \in {"if let Some", ".map"} -> <<"Optional">>
            [] Head(text) \in {"for it in ", "for el in ", "for mut el in ",
                               "FoldHelper::lift"} -> <<"Sequence">>
            [] Head(text) = "Box::new" -> <<"Indirection">>
            [] Head(text) \in {"_visitor.visit_", "_visitor.fold_"} -> <<text[2]>>
            [] OTHER -> <<>>)
         \o Shape(Tail(text))

\* Option may hold a sequence, a Box or an entry; a sequence a Box or an
\* entry; a Box an entry
Level(w) ==
    CASE w = "Option" -> 3
      [] w \in {"Vec", "Delimited"} -> 2
      [] w = "Box" -> 1

\* the segment at place lvl of the chain is reached through wrappers, none
\* of which is a name of the table
Reached(c, T, lvl) ==
    \A i \in 1..(lvl - 1) :
       /\ c[i] \in Wrappers \ T
       /\ i > 1 => Level(c[i]) < Level(c[i - 1])

\* what the wrappers before place lvl leave in the text (a Box leaves
\* nothing in a read or a mutation)
RECURSIVE Marks(_, _)
Marks(wrappers, kind) ==
    IF wrappers = <<>> THEN <<>>
    ELSE (CASE Head(wrappers) = "Option" -> <<"Optional">>
            [] Head(wrappers) \in {"Vec", "Delimited"} -> <<"Sequence">>
            [] Head(wrappers) = "Box" ->
                 IF kind = "Fold" THEN <<"Indirection">> ELSE <<>>)
         \o Marks(Tail(wrappers), kind)

(***************************************************************************)
(* C16.  Whenever the segment of the field's type, or of an element type   *)
(* reached through wrappers, names an entry of the table, the function of  *)
(* that entry is called on it, also when the name is Box, Vec, Delimited   *)
(* or Option: the strategy of a wrapper is used only for a name that is    *)
(* not in the table.                                                       *)
(***************************************************************************)
C16_DirectFirst ==
    visited.done =>
       \A lvl \in 1..Len(fieldTy) :
          (Reached(fieldTy, table, lvl) /\ fieldTy[lvl] \in table) =>
             /\ ~visited.res.panic
             /\ Shape(visited.res.text)
                  = Marks(SubSeq(fieldTy, 1, lvl - 1), visited.kind)
                    \o <<under_name(fieldTy[lvl])>>

\* a Vec of Box of Expr where Box is an entry: fold_box is called on each
\* element, and Expr is not looked at
C16_Witness ==
    /\ visited.done
    /\ fieldTy = <<"Vec", "Box", "Expr">>
    /\ table = {"Box", "Expr"}
    /\ visited.kind = "Fold"
    /\ Shape(visited.res.text) = <<"Sequence", "box">>

(***************************************************************************)
(* Sequences.                                                              *)
(***************************************************************************)
\* the chain c is an entry, or a Box (no entry) of an entry
DirectOrIndirection(c, T) == Direct(c, T) \/ Indirection(c, T)

\* the field is a Vec or a Delimited, neither an entry, of some type
IsSequence(c, T) == Head(c) \in {"Vec", "Delimited"} \ T /\ HasArg(c)

(***************************************************************************)
(* C17.  For a field Vec<E> or Delimited<E, _> the element type E is       *)
(* resolved as an entry or as a Box of an entry and in no other way: the   *)
(* field is then visited element by element, and it is unresolved (skip    *)
(* marker, or the value passed through) when E is a Vec, a Delimited or an *)
(* Option that is no entry.                                                *)
(***************************************************************************)
C17_ElementDirectOrIndirection ==
    (visited.done /\ IsSequence(fieldTy, table)) =>
       /\ DirectOrIndirection(Tail(fieldTy), table) =>
             /\ ~visited.res.panic
             /\ Shape(visited.res.text)
                  = <<"Sequence">>
                    \o (IF fieldTy[2] \in table THEN <<under_name(fieldTy[2])>>
                        ELSE Marks(<<"Box">>, visited.kind)
                             \o <<under_name(fieldTy[3])>>)
       /\ fieldTy[2] \in {"Vec", "Delimited", "Option"} \ table => Degraded
       /\ ~DirectOrIndirection(Tail(fieldTy), table) =>
             visited.res.panic \/ Degraded

\* Vec<Vec<Expr>>: the mutation skips the field although Expr is an entry
C17_Witness ==
    /\ visited.done
    /\ fieldTy = <<"Vec", "Vec", "Expr">>
    /\ table = {"Expr"}
    /\ visited.kind = "VisitMut"
    /\ visited.res.text = <<"// Skipped field ", "_i", ".", "0">>

(***************************************************************************)
(* Options.                                                                *)
(***************************************************************************)
\* the field is an Option, no entry, of some type
IsOption(c, T) == Head(c) = "Option" /\ "Option" \notin T /\ HasArg(c)

\* what a resolved chain leaves in the text
RECURSIVE ResolvedShape(_, _, _)
ResolvedShape(c, T, kind) ==
    IF Head(c) \in T THEN <<under_name(Head(c))>>
    ELSE Marks(<<Head(c)>>, kind) \o ResolvedShape(Tail(c), T, kind)

\* the text does something with the value of a Some, named it, and nothing
\* else: an `if let` without else, or Option::map
OnPresentOnly(text, kind, name) ==
    /\ Count(text, {"else", "None"}) = 0
    /\ CASE kind = "Visit" ->
              /\ IsPrefix(<<"if let Some", "(", "ref it", ")", " = ">>
                          \o owned_tokens(name) \o <<"{">>, text)
              /\ text[Len(text)] = "}"
         [] kind = "VisitMut" ->
              /\ IsPrefix(<<"if let Some", "(", "ref mut it", ")", " = ">>
                          \o owned_tokens(name) \o <<"{">>, text)
              /\ text[Len(text)] = "}"
         [] kind = "Fold" ->
              /\ IsPrefix(<<"(">> \o owned_tokens(name)
                          \o <<")", ".map", "(", "|it|", "{">>, text)
              /\ SubSeq(text, Len(text) - 1, Len(text)) = <<"}", ")">>

(***************************************************************************)
(* C18.  For a field Option<E> the type E is resolved as an entry, as a    *)
(* Box of an entry or as a sequence, and in no other way: Option<Option<T>>*)
(* is unresolved.  The text of a resolved field, for each of the three     *)
(* kinds, acts on the value of a Some only and leaves a None as it is.     *)
(***************************************************************************)
C18_InnerNotOptionalAgain ==
    (visited.done /\ IsOption(fieldTy, table)) =>
       /\ (\/ DirectOrIndirection(Tail(fieldTy), table)
           \/ SequenceOf(Tail(fieldTy), table)) =>
             /\ ~visited.res.panic
             /\ Shape(visited.res.text)
                  = <<"Optional">> \o ResolvedShape(Tail(fieldTy), table, visited.kind)
             /\ OnPresentOnly(visited.res.text, visited.kind, visited.name)
       /\ fieldTy[2] = "Option" => Degraded
       /\ ~(\/ DirectOrIndirection(Tail(fieldTy), table)
            \/ SequenceOf(Tail(fieldTy), table)) =>
             visited.res.panic \/ Degraded

\* Option<Delimited<Expr, _>>: the read loops over the list of a Some
C18_Witness ==
    /\ visited.done
    /\ fieldTy = <<"Option", "Delimited", "Expr">>
    /\ table = {"Expr"}
    /\ visited.kind = "Visit"
    /\ Shape(visited.res.text) = <<"Optional", "Sequence", "expr">>
    /\ OnPresentOnly(visited.res.text, visited.kind, visited.name)

(***************************************************************************)
(* Boxes.                                                                  *)
(***************************************************************************)
\* the field is a Box, no entry, of some type
IsBox(c, T) == Head(c) = "Box" /\ "Box" \notin T /\ HasArg(c)

\* the function of entry id called on the field itself (read, mutation);
\* the fold of entry id called on what the field points to, and the result
\* put into one Box
Unboxed(id, kind, name) ==
    CASE kind = "Visit" ->
           <<"_visitor.visit_", under_name(id), "(">> \o ref_tokens(name) \o <<")">>
      [] kind = "VisitMut" ->
           <<"_visitor.visit_", under_name(id), "_mut", "(">>
           \o ref_mut_tokens(name) \o <<")">>
      [] kind = "Fold" ->
           <<"Box::new", "(", "_visitor.fold_", under_name(id), "(", "*">>
           \o name.tokens \o <<")", ")">>

(***************************************************************************)
(* C19.  For a field Box<T>, Box being no entry: when T is an entry the    *)
(* fold calls T's fold on the value the field points to and puts the       *)
(* result into one Box, and the read and the mutation call T's function on *)
(* the field, with no Box; when T is no entry, a wrapper included, the     *)
(* field is unresolved for all three kinds.                                *)
(***************************************************************************)
C19_OneLevelOfBox ==
    (visited.done /\ IsBox(fieldTy, table)) =>
       IF fieldTy[2] \in table
       THEN /\ ~visited.res.panic
            /\ visited.res.text = Unboxed(fieldTy[2], visited.kind, visited.name)
            /\ Count(visited.res.text, {"Box::new"})
                 = IF visited.kind = "Fold" THEN 1 ELSE 0
       ELSE Degraded

\* Box<Expr> of a tuple variant's binding, folded
C19_Witness ==
    /\ visited.done
    /\ fieldTy = <<"Box", "Expr">>
    /\ table = {"Expr"}
    /\ visited.kind = "Fold"
    /\ visited.res.text
         = <<"Box::new", "(", "_visitor.fold_", "expr", "(", "*",
             "_binding_", "0", ")", ")">>

(***************************************************************************)
(* Records without fields.                                                 *)
(***************************************************************************)
ZeroFields(s) ==
    /\ s.body.kind = "Struct"
    /\ s.body.data = "Unit" \/ s.body.fields = <<>>

\* what is between the braces of the one function of the text
RawBody(text) ==
    LET open == CHOOSE p \in 1..Len(text) :
                   text[p] = "{" /\ \A q \in 1..(p - 1) : text[q] # "{"
    IN  SubSeq(text, open + 2, Len(text) - 2)

\* the read and the mutation that generate has left do nothing
EmptyBodies(res) ==
    /\ ~res.panic
    /\ RawBody(res.state.visit_impl) = <<>>
    /\ RawBody(res.state.visit_mut_impl) = <<>>

(***************************************************************************)
(* C20.  For every record without fields, declared as a unit, with empty   *)
(* braces or with empty parentheses, the bodies of the read and of the     *)
(* mutation are empty and the transform gives back the value it was given. *)
(***************************************************************************)
C20_ZeroFieldRecords ==
    (folded.done /\ ZeroFields(FoldLookup[given.node])) =>
       /\ folded.val = given
       /\ EmptyBodies(generate(EmptyState, FoldLookup, FoldLookup[given.node]))

\* Nil(), declared with empty parentheses
C20_Witness ==
    /\ folded.done
    /\ given.node = "Nil"
    /\ FoldLookup["Nil"].body.data = "Tuple" /\ FoldLookup["Nil"].body.fields = <<>>
    /\ folded.val = given

(***************************************************************************)
(* The buffers while generate is called for the entries of the table.      *)
(***************************************************************************)
\* the three kinds of traversal: the buffers, the words a default method
\* and a function begin with, the word of the call, what stands before the
\* type of the node, and what follows the name
Families ==
    { [trait |-> "visit_trait", impl |-> "visit_impl", method |-> "fn visit_",
       function |-> "pub fn visit_", call |-> "visit_",
       self |-> "&mut self, i: &'ast ", arg |-> "_visitor: &mut V, _i: &'ast ",
       suffix |-> <<>>],
      [trait |-> "visit_mut_trait", impl |-> "visit_mut_impl", method |-> "fn visit_",
       function |-> "pub fn visit_", call |-> "visit_",
       self |-> "&mut self, i: &mut ", arg |-> "_visitor: &mut V, _i: &mut ",
       suffix |-> <<"_mut">>],
      [trait |-> "fold_trait", impl |-> "fold_impl", method |-> "fn fold_",
       function |-> "pub fn fold_", call |-> "fold_",
       self |-> "&mut self, i: ", arg |-> "_visitor: &mut V, _i: ",
       suffix |-> <<>>] }

\* the places of a word in a text
Places(text, word) == {k \in 1..Len(text) : text[k] = word}

\* the words behind the one place of a word in a text, as many as given
Behind(text, word, n) ==
    LET k == CHOOSE p \in Places(text, word) : TRUE
    IN  SubSeq(text, k + 1, k + n)

\* the text holds one default method of this kind, for a node of this type,
\* and the method calls the function of its own name
OneMethod(text, f, type) ==
    /\ Cardinality(Places(text, f.method)) = 1
    /\ Cardinality(Places(text, f.call)) = 1
    /\ Behind(text, f.self, 1) = <<type>>
    /\ Behind(text, f.call, 1 + Len(f.suffix))
         = Behind(text, f.method, 1 + Len(f.suffix))
    /\ Behind(text, f.call, 2 + Len(f.suffix))
         = Behind(text, f.call, 1) \o f.suffix \o <<"(">>

\* the text holds one function of this kind and of this name, for a node of
\* this type
OneFunction(text, f, type, name) ==
    /\ Cardinality(Places(text, f.function)) = 1
    /\ Behind(text, f.arg, 1) = <<type>>
    /\ Behind(text, f.function, 1 + Len(f.suffix)) = name

\* generate has been called for every entry of the table, in the order of
\* the names, and has left one method and one function of each kind
OncePerEntry ==
    /\ Len(emitted) = Cardinality(DOMAIN lookup)
    /\ \A i \in 1..Len(emitted) :
          /\ emitted[i].ident \in DOMAIN lookup
          /\ ~emitted[i].panic
          /\ \A j \in (i + 1)..Len(emitted) :
                IdentLess(emitted[i].ident, emitted[j].ident)
          /\ \A f \in Families :
                /\ OneMethod(Chunk(i, f.trait), f, emitted[i].ident)
                /\ OneFunction(Chunk(i, f.impl), f, emitted[i].ident,
                               Behind(Chunk(i, f.trait), f.call, 1 + Len(f.suffix)))

(***************************************************************************)
(* C21.  Each call of generate leaves what every buffer held as a prefix   *)
(* of what it holds after the call; when generate has been called for all  *)
(* entries, each trait buffer holds one default method and each            *)
(* implementation buffer one function per entry of the table, in ascending *)
(* order of the names, and the default method of a node calls the function *)
(* of that node.                                                           *)
(***************************************************************************)
C21_AppendOnlyOncePerEntry ==
    [][/\ \A b \in Buffers : IsPrefix(state[b], state'[b])
       /\ pc = "generate" /\ pc' = "write" => OncePerEntry']_vars

\* Expr, ExprBox, ExprParen, Lit, Abi and the terminals have been emitted
C21_Witness ==
    /\ pc = "write"
    /\ Len(emitted) = 7
    /\ emitted[3].ident = "ExprBox"
    /\ Behind(Chunk(3, "visit_mut_trait"), "visit_", 2) = <<"expr_box", "_mut">>
    /\ OncePerEntry

(***************************************************************************)
(* Where the features of an entry come from.                               *)
(***************************************************************************)
\* the #[cfg] attributes among these, as they are written
CfgsOf(attrs) ==
    LET cfgs == SelectSeq(attrs, LAMBDA a : a.path = "cfg")
    IN  [k \in 1..Len(cfgs) |-> cfgs[k].text]

\* the features a call of load_file has: the #[cfg] attributes of the
\* module declarations it came through, the outermost first
FeaturesOfFile(frame) == CfgsOf(Flatten(frame.via))

\* the features of an entry declared in the files: the cfg of its own #full
\* and the #[cfg] attributes of the modules it is in and of its own macro
FeaturesOfEntry(id) ==
    (IF lookup[id].eos_full THEN <<FULL_CFG>> ELSE <<>>) \o CfgsOf(Flatten(origin[id].attrs))

(***************************************************************************)
(* C22.  A #[cfg] attribute of a module declaration or of a macro extends  *)
(* the features only for the file of that module and the files below it,   *)
(* or for the items of that one macro: every call of load_file keeps, item *)
(* after item, the features it was called with, and the features of an     *)
(* entry hold the #[cfg] attributes of the modules it is declared in and   *)
(* of its own macro and no other.                                          *)
(***************************************************************************)
C22_NoSidewaysLeak ==
    /\ pc = "load_file" =>
          \A k \in 1..Len(stack) : stack[k].features = FeaturesOfFile(stack[k])
    /\ pc \in {"load_file", "terminals", "generate", "write", "done"} =>
          \A id \in DOMAIN lookup :
             ~origin[id].terminal => lookup[id].features = FeaturesOfEntry(id)

\* Abi is declared in expr.rs (#[cfg] P) behind `#[cfg] Q mod lit`, Item in
\* the crate root under #[cfg] Q behind `#[cfg] P mod expr`
C22_Witness ==
    /\ Extracted
    /\ Items(SYN_CRATE_ROOT)
         = <<ItemMod("expr", <<CfgP, Doc>>, FALSE),
             ItemMacro("ast_struct", <<CfgQ>>, NamedItem)>>
    /\ lookup["Lit"].features = <<CfgP.text, CfgQ.text, CfgR.text>>
    /\ lookup["Abi"].features = <<CfgP.text>>
    /\ lookup["Item"].features = <<CfgQ.text>>
====
